---- MODULE Spec2Model ----
(***************************************************************************)
(* AEMET weather component (src/aemet/aemet.py): the catalog resolver      *)
(* (AemetMasterRecord), the HTTP gateway (AemetAPI), the observation and   *)
(* forecast components (AemetWeather, AemetForecast) and the aggregator    *)
(* (AemetData) with its throttled update cycle.                            *)
(*                                                                         *)
(* Time is counted in minutes.  Coordinates are points on a line, in km,   *)
(* and the geodesic distance of two points is their absolute difference.   *)
(* None is the record NULL; a Python exception is the name of its class.   *)
(***************************************************************************)
EXTENDS Integers, Sequences, FiniteSets, TLC

VARIABLES
    now,        \* datetime.now(), in minutes
    ticks,      \* number of times the clock was advanced
    location,   \* AemetData.location
    master,     \* cls -> [data, nearest]: weather_stations and cities
    sub,        \* comp -> [data, nearest]: currently, hourly, daily
    data,       \* AemetData.data, the combined snapshot
    cache,      \* the cache directory: file name -> blob or NULL
    throttle,   \* comp -> time of the last completed call of its update()
    pc,         \* position inside the operation in flight; "done" / "raised"
                \* when it has returned / raised, "idle" between operations
    err,        \* exception the operation in flight has raised, or NoExc
    ran,        \* comp -> time its update() last ran (was not skipped)
    call,       \* the operation in flight and what it was called on
    steps,      \* steps the operation in flight has taken
    io,         \* cache reads, requests and cache writes of the last step
    entity      \* the weather entity of weather.py: what its update() kept

vars == <<now, ticks, location, master, sub, data, cache, throttle, pc, err,
          ran, call, steps, io, entity>>

-----------------------------------------------------------------------------
(* Bounds of the model *)

MaxCat == 2       \* longest catalog the upstream returns
MaxReadings == 2  \* longest list of readings the upstream returns
MaxTicks == 1     \* clock advances in one behaviour
MaxPeriods == 2   \* most entries of one sensor in one day of a forecast

(* Program constants *)

MIN_TIME_BETWEEN_UPDATES == 5     \* minutes
WRITE_WINDOW == 5                 \* minutes, _write_master_data
STALE_AFTER == 10080              \* 7 days in minutes
THRESHOLD_CIUDADES == 25          \* km
THRESHOLD_ESTACIONES == 40        \* km
HTTP_OK == 200
HTTP_UNAUTHORIZED == 401
HTTP_NOT_FOUND == 404
HTTP_TOO_MANY_REQUESTS == 429

-----------------------------------------------------------------------------
(* Values *)

NULL == [null |-> TRUE]
NoExc == "none"
NEVER == -1

\* an attribute that was never assigned
UNSET == [unset |-> TRUE]

\* weather.py, AemetWeather.__init__: nothing fetched yet, hourly mode; a
\* list that the entity holds is the record [list |-> its elements]
NoEntity ==
    [mode |-> "hourly", data |-> NULL, currently |-> NULL, hourly |-> NULL,
     daily |-> NULL, current_hour |-> UNSET, stamp |-> NEVER]

ENTITIES == {"estaciones", "ciudades"}
COMPONENTS == {"currently", "horaria", "diaria"}
CACHE_FILES == ENTITIES \cup COMPONENTS \cup {"data"}

\* Raw catalog rows as the upstream sends them: a code, with or without the
\* "id" marker, and a position.  The code determines the position.
RawEntities ==
    { [id |-> <<"i", "d", "a">>, pos |-> 0],
      [id |-> <<"b">>, pos |-> 40] }

RawCatalogs == UNION { [1..n -> RawEntities] : n \in 0..MaxCat }

Locations == {0, 20, 65, 81}

\* Codes a caller may pin (CONF weather_station / city)
PinnedCodes == { <<"a">> }

IsStr(n) == "pin" \in DOMAIN n
IsEntry(n) == "codigo" \in DOMAIN n
IsCatalog(d) == "entries" \in DOMAIN d

-----------------------------------------------------------------------------
(* Catalog resolver: AemetMasterRecord *)

\* vincenty(point1, point2) on the line
vincenty(p, q) == IF p >= q THEN p - q ELSE q - p

Threshold(cls) ==
    IF cls = "ciudades" THEN THRESHOLD_CIUDADES ELSE THRESHOLD_ESTACIONES

\* a scan in which a later entry at the same distance replaces the candidate
RECURSIVE ScanNearestLast(_, _, _, _, _)
ScanNearestLast(list, loc, i, bestd, bestc) ==
    IF i > Len(list) THEN [distance |-> bestd, codigo |-> bestc]
    ELSE LET d == vincenty(list[i].pos, loc)
         IN IF bestd = NEVER \/ d <= bestd
            THEN ScanNearestLast(list, loc, i + 1, d, list[i].codigo)
            ELSE ScanNearestLast(list, loc, i + 1, bestd, bestc)

\* nearest_location's first loop: the code of the first entry at the least
\* distance (a later entry replaces the candidate only if strictly nearer)
RECURSIVE ScanNearest(_, _, _, _, _)
ScanNearest(list, loc, i, bestd, bestc) ==
    IF i > Len(list) THEN [distance |-> bestd, codigo |-> bestc]
    ELSE LET d == vincenty(list[i].pos, loc)
         IN IF bestd = NEVER \/ d < bestd
            THEN ScanNearest(list, loc, i + 1, d, list[i].codigo)
            ELSE ScanNearest(list, loc, i + 1, bestd, bestc)

\* first entry of the list with the given code, NULL if none
FirstWithCode(list, code) ==
    IF \E i \in 1..Len(list) : list[i].codigo = code
    THEN list[CHOOSE i \in 1..Len(list) :
                 /\ list[i].codigo = code
                 /\ \A j \in 1..(i - 1) : list[j].codigo # code]
    ELSE NULL

\* _nearest_location_iterate: [exc, nearest]
nearest_location_iterate(d, loc) ==
    IF d = NULL THEN [exc |-> NoExc, nearest |-> NULL]
    ELSE IF ~IsCatalog(d) THEN [exc |-> "KeyError", nearest |-> NULL]
    ELSE LET s == ScanNearest(d.entries, loc, 1, NEVER, <<>>)
         IN [exc |-> NoExc,
             nearest |-> IF s.distance = NEVER THEN NULL
                         ELSE FirstWithCode(d.entries, s.codigo)]

\* lines 376-384: a pinned code is looked up; self.nearest is None or the
\* entry afterwards, so the ValueError of line 384 is never raised
LookupPinned(m) ==
    IF ~IsStr(m.nearest) THEN [exc |-> NoExc, nearest |-> m.nearest]
    ELSE IF m.data = NULL THEN [exc |-> "AttributeError", nearest |-> NULL]
    ELSE IF ~IsCatalog(m.data) THEN [exc |-> "TypeError", nearest |-> NULL]
    ELSE [exc |-> NoExc, nearest |-> FirstWithCode(m.data.entries, m.nearest.pin)]

\* a search that is made on every call
SearchNearestAlways(m, n1, loc, force) ==
    LET r == nearest_location_iterate(m.data, loc)
    IN IF r.exc # NoExc THEN [exc |-> r.exc, nearest |-> n1] ELSE r

\* lines 386-387
SearchNearest(m, n1, loc, force) ==
    IF n1 = NULL \/ force
    THEN LET r == nearest_location_iterate(m.data, loc)
         IN IF r.exc # NoExc THEN [exc |-> r.exc, nearest |-> n1] ELSE r
    ELSE [exc |-> NoExc, nearest |-> n1]

\* a rejection that applies the stations' threshold to every catalog
RejectFarOneThreshold(cls, n2, loc) ==
    IF n2 = NULL THEN [exc |-> "TypeError", nearest |-> NULL]
    ELSE IF vincenty(loc, n2.pos) > THRESHOLD_ESTACIONES
         THEN [exc |-> NoExc, nearest |-> NULL]
         ELSE [exc |-> NoExc, nearest |-> n2]

\* lines 389-411
RejectFar(cls, n2, loc) ==
    IF n2 = NULL THEN [exc |-> "TypeError", nearest |-> NULL]
    ELSE IF vincenty(loc, n2.pos) > Threshold(cls)
         THEN [exc |-> NoExc, nearest |-> NULL]
         ELSE [exc |-> NoExc, nearest |-> n2]

\* a resolution that keeps the entry of a pinned code whatever its distance
update_distance_trusting_pins(m, cls, loc, force) ==
    LET a == LookupPinned(m)
    IN IF a.exc # NoExc THEN a
       ELSE IF IsStr(m.nearest) THEN a
       ELSE LET b == SearchNearest(m, a.nearest, loc, force)
            IN IF b.exc # NoExc THEN b
               ELSE RejectFar(cls, b.nearest, loc)

\* AemetMasterRecord.update_distance: the exception raised and self.nearest
\* as the call leaves it
update_distance(m, cls, loc, force) ==
    LET a == LookupPinned(m)
    IN IF a.exc # NoExc THEN a
       ELSE LET b == SearchNearest(m, a.nearest, loc, force)
            IN IF b.exc # NoExc THEN b
               ELSE RejectFar(cls, b.nearest, loc)

\* a stripping that looks at the first character only
StripTwo(code) ==
    IF Len(code) >= 2 /\ code[1] = "i"
    THEN SubSeq(code, 3, Len(code))
    ELSE code

\* a code with the "id" prefix removed
StripId(code) ==
    IF Len(code) >= 2 /\ code[1] = "i" /\ code[2] = "d"
    THEN SubSeq(code, 3, Len(code))
    ELSE code

\* a cleaning that stamps again what was cleaned before
clean_master_data_restamped(raw, t) ==
    IF "saved" \in DOMAIN raw
    THEN [exc |-> NoExc, val |-> [raw EXCEPT !.saved = t]]
    ELSE IF raw = NULL THEN [exc |-> "TypeError", val |-> NULL]
    ELSE IF "list" \in DOMAIN raw
    THEN [exc |-> NoExc,
          val |-> [saved |-> t,
                   entries |-> [i \in 1..Len(raw.list) |->
                                  [codigo |-> StripId(raw.list[i].id),
                                   pos |-> raw.list[i].pos]]]]
    ELSE [exc |-> "AttributeError", val |-> NULL]

\* _clean_master_data on a JSON value: [exc, val]
clean_master_data(raw, t) ==
    IF "saved" \in DOMAIN raw THEN [exc |-> NoExc, val |-> raw]
    ELSE IF raw = NULL THEN [exc |-> "TypeError", val |-> NULL]
    ELSE IF "list" \in DOMAIN raw
    THEN [exc |-> NoExc,
          val |-> [saved |-> t,
                   entries |-> [i \in 1..Len(raw.list) |->
                                  [codigo |-> StripId(raw.list[i].id),
                                   pos |-> raw.list[i].pos]]]]
    ELSE [exc |-> "AttributeError", val |-> NULL]

-----------------------------------------------------------------------------
(* HTTP gateway: AemetAPI *)

\* What the network can answer to one request
Transport == [kind |-> "transport"]     \* ConnectionError, HTTPError, Timeout
Malformed == [kind |-> "malformed"]     \* body that is not JSON
Json(body) == [kind |-> "json", body |-> body]

\* status envelope of a staged endpoint; the last one carries no "estado"
EnvelopeResponses ==
    {Transport, Malformed, Json([descripcion |-> "none"])}
    \cup { Json([estado |-> e]) :
              e \in {HTTP_OK, HTTP_UNAUTHORIZED, HTTP_NOT_FOUND,
                     HTTP_TOO_MANY_REQUESTS, 500} }

\* answers to a catalog request whose payload is one of the given lists
CatalogResponses(lists) ==
    {Transport, Malformed, Json(NULL), Json([estado |-> HTTP_UNAUTHORIZED])}
    \cup { Json([list |-> c]) : c \in lists }

Readings(code) ==
    UNION { [1..n -> [idema : {code}, fint : {1}]] : n \in 0..MaxReadings }

ObservationResponses(code) ==
    {Transport, Malformed, Json(NULL)}
    \cup { Json([list |-> r]) : r \in Readings(code) }

ForecastResponses(code) ==
    {Transport, Malformed, Json(NULL), Json([list |-> <<>>])}
    \cup { Json([list |-> <<[version |-> v, nombre |-> code, dia |-> <<>>]>>]) :
              v \in {"1.0", "2.0"} }

Get(url) == [ev |-> "get", name |-> url]
Read(file) == [ev |-> "read", name |-> file]
Write(file) == [ev |-> "write", name |-> file]

\* _api_request: a transport failure is answered by an empty list; the body
\* is decoded outside the try block
api_request(resp) ==
    IF resp.kind = "transport" THEN [exc |-> NoExc, val |-> [list |-> <<>>]]
    ELSE IF resp.kind = "malformed" THEN [exc |-> "ValueError", val |-> NULL]
    ELSE [exc |-> NoExc, val |-> resp.body]

\* lines 191-212: what the status envelope raises
EnvelopeError(v) ==
    IF v = NULL \/ "list" \in DOMAIN v THEN "AttributeError"
    ELSE IF "estado" \notin DOMAIN v THEN "RuntimeError"
    ELSE IF v.estado = HTTP_UNAUTHORIZED THEN "ValueError"
    ELSE IF v.estado = HTTP_NOT_FOUND THEN "ConnectionError"
    ELSE IF v.estado = HTTP_TOO_MANY_REQUESTS THEN "ConnectionRefusedError"
    ELSE IF v.estado # HTTP_OK THEN "HTTPError"
    ELSE NoExc

\* a staged call that goes on to the data request whatever the status
StagedCallUnchecked(url, env, dat) ==
    LET r1 == api_request(env)
    IN IF r1.exc # NoExc
       THEN [exc |-> r1.exc, val |-> NULL, io |-> <<Get(url)>>]
       ELSE LET r2 == api_request(dat)
            IN [exc |-> r2.exc, val |-> r2.val,
                io |-> <<Get(url), Get("datos")>>]

\* staged call, lines 185-218
StagedCall(url, env, dat) ==
    LET r1 == api_request(env)
    IN IF r1.exc # NoExc
       THEN [exc |-> r1.exc, val |-> NULL, io |-> <<Get(url)>>]
       ELSE IF EnvelopeError(r1.val) # NoExc
       THEN [exc |-> EnvelopeError(r1.val), val |-> NULL, io |-> <<Get(url)>>]
       ELSE LET r2 == api_request(dat)
            IN [exc |-> r2.exc, val |-> r2.val,
                io |-> <<Get(url), Get("datos")>>]

\* direct call, lines 219-223
DirectCall(url, dat) ==
    LET r == api_request(dat)
    IN [exc |-> r.exc, val |-> r.val, io |-> <<Get(url)>>]

\* AemetAPI.api_call: url is the method name of the endpoint, file the
\* content of its cache file
api_call(url, cached, file, env, dat) ==
    IF cached /\ file # NULL
    THEN [exc |-> NoExc, val |-> file, io |-> <<Read(url)>>]
    ELSE LET r == IF url = "ciudades" THEN DirectCall(url, dat)
                  ELSE StagedCall(url, env, dat)
         IN [r EXCEPT !.io = IF cached THEN <<Read(url)>> \o r.io ELSE r.io]

\* save_to_file, on a cache directory that can be written
save_to_file(c, file, blob) == [c EXCEPT ![file] = blob]

-----------------------------------------------------------------------------
(* AemetMasterRecord.update *)

\* a write that is made once the catalog is older than the window
write_master_data_when_older(d, cls, c, t) ==
    IF d = NULL THEN [exc |-> NoExc, cache |-> c, io |-> <<>>]
    ELSE IF "saved" \notin DOMAIN d
    THEN [exc |-> "TypeError", cache |-> c, io |-> <<>>]
    ELSE IF t - d.saved > WRITE_WINDOW
    THEN [exc |-> NoExc, cache |-> save_to_file(c, cls, d),
          io |-> <<Write(cls)>>]
    ELSE [exc |-> NoExc, cache |-> c, io |-> <<>>]

\* _write_master_data(force=False) on self.data = d at time t
write_master_data(d, cls, c, t) ==
    IF d = NULL THEN [exc |-> NoExc, cache |-> c, io |-> <<>>]
    ELSE IF "saved" \notin DOMAIN d
    THEN [exc |-> "TypeError", cache |-> c, io |-> <<>>]
    ELSE IF t - d.saved < WRITE_WINDOW
    THEN [exc |-> NoExc, cache |-> save_to_file(c, cls, d),
          io |-> <<Write(cls)>>]
    ELSE [exc |-> NoExc, cache |-> c, io |-> <<>>]

\* a first load that bypasses the cache
LoadMasterLive(d, cls, c, t, env, dat) ==
    LET r == api_call(cls, FALSE, c[cls], env, dat)
    IN IF r.exc # NoExc THEN [exc |-> r.exc, data |-> d, io |-> r.io]
       ELSE IF r.val # NULL /\ "list" \in DOMAIN r.val
       THEN [exc |-> NoExc, data |-> clean_master_data(r.val, t).val, io |-> r.io]
       ELSE [exc |-> NoExc, data |-> r.val, io |-> r.io]

\* lines 477-485: no catalog in memory yet
LoadMaster(d, cls, c, t, env, dat) ==
    LET r == api_call(cls, TRUE, c[cls], env, dat)
    IN IF r.exc # NoExc THEN [exc |-> r.exc, data |-> d, io |-> r.io]
       ELSE IF r.val # NULL /\ "list" \in DOMAIN r.val
       THEN [exc |-> NoExc, data |-> clean_master_data(r.val, t).val, io |-> r.io]
       ELSE [exc |-> NoExc, data |-> r.val, io |-> r.io]

\* a refresh that already takes a catalog of exactly 7 days for stale
RefreshMasterAtSevenDays(d, cls, c, t, env, dat) ==
    IF "saved" \notin DOMAIN d
    THEN [exc |-> "TypeError", data |-> d, io |-> <<>>]
    ELSE IF STALE_AFTER <= t - d.saved
    THEN LET r == api_call(cls, FALSE, c[cls], env, dat)
             k == clean_master_data(r.val, t)
         IN IF r.exc # NoExc THEN [exc |-> r.exc, data |-> d, io |-> r.io]
            ELSE IF k.exc # NoExc THEN [exc |-> k.exc, data |-> d, io |-> r.io]
            ELSE [exc |-> NoExc, data |-> k.val, io |-> r.io]
    ELSE [exc |-> NoExc, data |-> d, io |-> <<>>]

\* lines 486-491: a catalog in memory, refreshed when older than 7 days
RefreshMaster(d, cls, c, t, env, dat) ==
    IF "saved" \notin DOMAIN d
    THEN [exc |-> "TypeError", data |-> d, io |-> <<>>]
    ELSE IF STALE_AFTER < t - d.saved
    THEN LET r == api_call(cls, FALSE, c[cls], env, dat)
             k == clean_master_data(r.val, t)
         IN IF r.exc # NoExc THEN [exc |-> r.exc, data |-> d, io |-> r.io]
            ELSE IF k.exc # NoExc THEN [exc |-> k.exc, data |-> d, io |-> r.io]
            ELSE [exc |-> NoExc, data |-> k.val, io |-> r.io]
    ELSE [exc |-> NoExc, data |-> d, io |-> <<>>]

\* AemetMasterRecord.update: [exc, data, cache, io]
master_update(d, cls, c, t, env, dat) ==
    LET f == IF d = NULL THEN LoadMaster(d, cls, c, t, env, dat)
             ELSE RefreshMaster(d, cls, c, t, env, dat)
        w == write_master_data(f.data, cls, c, t)
    IN IF f.exc # NoExc
       THEN [exc |-> f.exc, data |-> f.data, cache |-> c, io |-> f.io]
       ELSE [exc |-> w.exc, data |-> f.data, cache |-> w.cache,
             io |-> f.io \o w.io]

-----------------------------------------------------------------------------
(* Observation and forecast components: AemetWeather, AemetForecast *)

\* sorted(raw_data, key=itemgetter("fint"))[-1]: the sort is stable, so the
\* last element is the last of the readings with the greatest fint
\* the reading that ends the list as it was received
LastReceived(list) == list[Len(list)]

LatestReading(list) ==
    list[CHOOSE i \in 1..Len(list) :
            \A j \in 1..Len(list) :
                \/ list[j].fint < list[i].fint
                \/ list[j].fint = list[i].fint /\ j <= i]

\* _clean_currently_data: [exc, val]
clean_currently_data(raw) ==
    IF "list" \notin DOMAIN raw THEN [exc |-> "TypeError", val |-> NULL]
    ELSE IF raw.list = <<>> THEN [exc |-> "IndexError", val |-> NULL]
    ELSE LET r == LatestReading(raw.list)
         IN [exc |-> NoExc,
             val |-> [information |-> [weather_station |-> r.idema],
                      data |-> IF "ta" \in DOMAIN r
                               THEN [datetime |-> r.fint, temperature |-> r.ta]
                               ELSE [datetime |-> r.fint]]]

\* _periodo: the key of one sensor entry of the day fecha.  The 19 characters
\* "{fecha}T{hh}:00:00" are the pair <<fecha, hh>>, and the longer interval
\* key "{fecha}T{ini}:00:00 & {fin}" is the triple <<fecha, ini, fin>>
periodo(variable, fecha) ==
    IF "periodo" \notin DOMAIN variable THEN <<fecha, 0>>
    ELSE LET ini_periodo == variable.periodo[1]
             fin_periodo == variable.periodo[2]
         IN IF ini_periodo = fin_periodo THEN <<fecha, ini_periodo>>
            ELSE IF ini_periodo = 0 /\ fin_periodo = 24 THEN <<fecha, 0>>
            ELSE <<fecha, ini_periodo, fin_periodo>>

\* transformed_data is the sequence of its items [key, val] in the order of
\* their insertion
KeyIndex(td, key) ==
    IF \E i \in DOMAIN td : td[i].key = key
    THEN CHOOSE i \in DOMAIN td : td[i].key = key
    ELSE 0

\* a dict is the function from its keys to their values; {} has no key
EmptyDict == [k \in {} |-> NULL]

\* d[key] = value
DictSet(d, key, value) == (key :> value) @@ d

\* schema_definition: sensor, field, append, replace; of it the lines of
\* estadoCielo.value and of temperatura
schema_definition(mode) ==
    IF mode = "diaria"
    THEN << [sensor |-> "estadoCielo", field |-> "value",
             append |-> FALSE, replace |-> FALSE],
            [sensor |-> "temperatura", field |-> "maxima",
             append |-> FALSE, replace |-> FALSE],
            [sensor |-> "temperatura", field |-> "minima",
             append |-> TRUE, replace |-> FALSE] >>
    ELSE << [sensor |-> "estadoCielo", field |-> "value",
             append |-> FALSE, replace |-> FALSE],
            [sensor |-> "temperatura", field |-> "value",
             append |-> FALSE, replace |-> FALSE] >>

\* _MAP_FIELDS; the name "{sensor}_{Field}" is the pair <<sensor, field>>
MAP_FIELDS ==
    (<<"estadoCielo">> :> "condition")
    @@ (<<"temperatura">> :> "temperature")
    @@ (<<"temperatura", "minima">> :> "templow")

\* the name under which inner_transform stores a field
FieldName(schema) ==
    LET name == IF schema.replace THEN schema.field ELSE schema.sensor
    IN MAP_FIELDS[IF schema.append THEN <<name, schema.field>> ELSE <<name>>]

\* a value of a payload is a scalar [scalar |-> s] or a list [list |-> seq];
\* of a list inner_transform reads the first element
FirstOf(resultado) ==
    IF "list" \in DOMAIN resultado THEN resultado.list[1]
    ELSE resultado.scalar

\* an inner_transform that stores every value it is given
inner_transform_storing_empty(td, lista_datos, schema, fecha) ==
    LET interval == periodo(lista_datos, fecha)
        seen == IF KeyIndex(td, interval) = 0
                THEN Append(td, [key |-> interval, val |-> EmptyDict])
                ELSE td
        i == KeyIndex(seen, interval)
    IN IF schema.field \notin DOMAIN lista_datos THEN seen
       ELSE [seen EXCEPT
               ![i].val = DictSet(@, FieldName(schema),
                                  FirstOf(lista_datos[schema.field]))]

\* inner_transform: the record of the interval is created when it is not
\* there, and the field is stored unless it is missing or the empty string
inner_transform(td, lista_datos, schema, fecha) ==
    LET interval == periodo(lista_datos, fecha)
        seen == IF KeyIndex(td, interval) = 0
                THEN Append(td, [key |-> interval, val |-> EmptyDict])
                ELSE td
        i == KeyIndex(seen, interval)
    IN IF schema.field \notin DOMAIN lista_datos THEN seen
       ELSE IF FirstOf(lista_datos[schema.field]) # ""
       THEN [seen EXCEPT
               ![i].val = DictSet(@, FieldName(schema),
                                  FirstOf(lista_datos[schema.field]))]
       ELSE seen

\* the loop of transform over the entries of a sensor given as a list
RECURSIVE transform_list(_, _, _, _)
transform_list(td, entries, schema, fecha) ==
    IF entries = <<>> THEN td
    ELSE transform_list(inner_transform(td, Head(entries), schema, fecha),
                        Tail(entries), schema, fecha)

\* transform: the sensor of one day, a list [list |-> seq] of entries or one
\* entry; a day without the sensor is passed over
transform(td, forecast, schema, fecha) ==
    IF schema.sensor \notin DOMAIN forecast THEN td
    ELSE IF "list" \in DOMAIN forecast[schema.sensor]
    THEN transform_list(td, forecast[schema.sensor].list, schema, fecha)
    ELSE inner_transform(td, forecast[schema.sensor], schema, fecha)

\* the loop over the schema for one day
RECURSIVE transform_day(_, _, _)
transform_day(td, forecast, schemas) ==
    IF schemas = <<>> THEN td
    ELSE transform_day(transform(td, forecast, Head(schemas), forecast.fecha),
                       forecast, Tail(schemas))

\* the loop over raw_data[0]["prediccion"]["dia"]
RECURSIVE transform_days(_, _, _)
transform_days(td, dia, mode) ==
    IF dia = <<>> THEN td
    ELSE transform_days(transform_day(td, Head(dia), schema_definition(mode)),
                        Tail(dia), mode)

\* resultado[0] of an empty list: an entry that some line of the schema reads
\* has an empty list in the field of that line
EmptyListRead(dia, mode) ==
    \E d \in DOMAIN dia, n \in DOMAIN schema_definition(mode) :
       LET schema == schema_definition(mode)[n]
           Empty(entry) == /\ schema.field \in DOMAIN entry
                           /\ "list" \in DOMAIN entry[schema.field]
                           /\ entry[schema.field].list = <<>>
       IN /\ schema.sensor \in DOMAIN dia[d]
          /\ IF "list" \in DOMAIN dia[d][schema.sensor]
             THEN \E e \in DOMAIN dia[d][schema.sensor].list :
                     Empty(dia[d][schema.sensor].list[e])
             ELSE Empty(dia[d][schema.sensor])

\* an interval key whose day has no record at 00:00:00 to receive it
Homeless(td) ==
    { i \in DOMAIN td : /\ Len(td[i].key) > 2
                         /\ KeyIndex(td, <<td[i].key[1], 0>>) = 0 }

\* float(valor) of the strings that are numbers
FloatOf == ("20" :> 20) @@ ("5" :> 5)

\* _FLOAT_SENSORS, of which temperature: the value becomes a number, and is
\* left as it is when float() raises
float_sensors(value) ==
    IF "temperature" \in DOMAIN value
    THEN IF value.temperature \in DOMAIN FloatOf
         THEN [value EXCEPT !.temperature = FloatOf[@]]
         ELSE value
    ELSE value

\* the intervals are moved under the record of their day at 00:00:00 (parts
\* holds them, each with its key horas), every record of a full key receives
\* its key as datetime, and the float sensors are converted
move_intervals(td) ==
    [i \in DOMAIN td |->
        IF Len(td[i].key) = 2
        THEN DictSet(
               DictSet(float_sensors(td[i].val), "parts",
                       IF td[i].key[2] = 0
                       THEN { [horas |-> <<td[j].key[2], td[j].key[3]>>,
                               val |-> float_sensors(td[j].val)] :
                              j \in { k \in DOMAIN td :
                                        /\ Len(td[k].key) > 2
                                        /\ td[k].key[1] = td[i].key[1] } }
                       ELSE {}),
               "datetime", td[i].key)
        ELSE float_sensors(td[i].val)]

\* the order of two datetime strings
EarlierStamp(a, b) == a[1] < b[1] \/ (a[1] = b[1] /\ a[2] < b[2])

\* the records in the order of their insertion
inserted_data(td) ==
    LET kept == SelectSeq([i \in DOMAIN td |-> i],
                          LAMBDA i : Len(td[i].key) = 2)
    IN [n \in DOMAIN kept |-> move_intervals(td)[kept[n]]]

\* the records of full keys left in the order of their insertion
unsorted_data(td) == inserted_data(td)

\* sorted_data: only the records of full keys, sorted by datetime
sorted_data(td) ==
    SortSeq(inserted_data(td),
            LAMBDA a, b : EarlierStamp(a.datetime, b.datetime))

\* a normalizer that takes a payload of any schema version
refactor_forecast_any_version(raw, mode) ==
    IF "list" \notin DOMAIN raw THEN [exc |-> "KeyError", val |-> NULL]
    ELSE IF raw.list = <<>> THEN [exc |-> "IndexError", val |-> NULL]
    ELSE IF EmptyListRead(raw.list[1].dia, mode)
    THEN [exc |-> "IndexError", val |-> NULL]
    ELSE LET td == transform_days(<<>>, raw.list[1].dia, mode)
         IN IF Homeless(td) # {} THEN [exc |-> "KeyError", val |-> NULL]
            ELSE [exc |-> NoExc,
                  val |-> [information |-> [city |-> raw.list[1].nombre,
                                            version |-> raw.list[1].version],
                           data |-> sorted_data(td)]]

\* _refactor_forecast: [exc, val]; of the header the city and the version
\* are kept, of the sensors estadoCielo and temperatura
refactor_forecast(raw, mode) ==
    IF "list" \notin DOMAIN raw THEN [exc |-> "KeyError", val |-> NULL]
    ELSE IF raw.list = <<>> THEN [exc |-> "IndexError", val |-> NULL]
    ELSE IF raw.list[1].version # "1.0" THEN [exc |-> NoExc, val |-> NULL]
    ELSE IF EmptyListRead(raw.list[1].dia, mode)
    THEN [exc |-> "IndexError", val |-> NULL]
    ELSE LET td == transform_days(<<>>, raw.list[1].dia, mode)
         IN IF Homeless(td) # {} THEN [exc |-> "KeyError", val |-> NULL]
            ELSE [exc |-> NoExc,
                  val |-> [information |-> [city |-> raw.list[1].nombre,
                                            version |-> raw.list[1].version],
                           data |-> sorted_data(td)]]

\* _update_currently / _update_forecast: [exc, val, io]
FetchComponent(comp, nearest, env, dat) ==
    IF nearest = NULL THEN [exc |-> "ValueError", val |-> NULL, io |-> <<>>]
    ELSE LET r == api_call(IF comp = "currently" THEN "estacion" ELSE comp,
                           FALSE, NULL, env, dat)
             k == IF comp = "currently" THEN clean_currently_data(r.val)
                  ELSE refactor_forecast(r.val, comp)
         IN IF r.exc # NoExc THEN [exc |-> r.exc, val |-> NULL, io |-> r.io]
            ELSE IF r.val = NULL THEN [exc |-> NoExc, val |-> NULL, io |-> r.io]
            ELSE [exc |-> k.exc, val |-> k.val, io |-> r.io]

\* a gate with the comparison turned around: old calls are skipped
ThrottledWhenOld(stamp, t) ==
    stamp # NEVER /\ t - stamp > MIN_TIME_BETWEEN_UPDATES

\* homeassistant.util.Throttle: the call is skipped unless the method never
\* completed or more than the window has passed since it last completed
Throttled(stamp, t) ==
    stamp # NEVER /\ ~(t - stamp > MIN_TIME_BETWEEN_UPDATES)

\* AemetWeather.update / AemetForecast.update behind their Throttle:
\* [exc, sub (the component), stamp, cache, io]
component_update(comp, s, stamp, nearest, c, t, env, dat) ==
    IF Throttled(stamp, t)
    THEN [exc |-> NoExc, sub |-> s, stamp |-> stamp, cache |-> c, io |-> <<>>,
          skipped |-> TRUE]
    ELSE LET n == IF nearest # NULL THEN nearest ELSE s.nearest
             f == FetchComponent(comp, n, env, dat)
             d == [val |-> f.val, saved |-> t]
         IN IF f.exc = "ValueError"
            THEN [exc |-> NoExc, sub |-> [s EXCEPT !.nearest = n],
                  stamp |-> t, cache |-> c, io |-> f.io, skipped |-> FALSE]
            ELSE IF f.exc # NoExc
            THEN [exc |-> f.exc, sub |-> [s EXCEPT !.nearest = n],
                  stamp |-> stamp, cache |-> c, io |-> f.io, skipped |-> FALSE]
            ELSE [exc |-> NoExc, sub |-> [data |-> d, nearest |-> n],
                  stamp |-> t, cache |-> save_to_file(c, comp, d),
                  io |-> f.io \o <<Write(comp)>>, skipped |-> FALSE]

-----------------------------------------------------------------------------
(* State machine: AemetData *)

\* clock advances between operations: the throttle window, and a minute more
Delays == {MIN_TIME_BETWEEN_UPDATES, MIN_TIME_BETWEEN_UPDATES + 1}

\* the catalog the upstream serves during the update cycles
FullCatalog == <<[id |-> <<"i", "d", "a">>, pos |-> 0],
                 [id |-> <<"b">>, pos |-> 40]>>

Clean(list) == clean_master_data([list |-> list], 0).val

\* a cache directory left by an earlier run may hold the catalogs
InitialFiles == {NULL, Clean(FullCatalog)}

\* where the host may be moved to: between the two entries, and beyond the
\* second one, in reach of it as a station but not as a municipality
Places == {20, 70}

Pins == {NULL} \cup { [pin |-> c] : c \in PinnedCodes }

NoCall == [op |-> "none"]

\* AemetData.__init__ (the platform pins a station, never a city)
Init ==
    /\ now = 0
    /\ ticks = 0
    /\ location = 20
    /\ \E ws \in Pins :
          master = [estaciones |-> [data |-> NULL, nearest |-> ws],
                    ciudades |-> [data |-> NULL, nearest |-> NULL]]
    /\ sub = [c \in COMPONENTS |-> [data |-> NULL, nearest |-> NULL]]
    /\ data = NULL
    /\ \E c \in InitialFiles :
          cache = [f \in CACHE_FILES |-> IF f \in ENTITIES THEN c ELSE NULL]
    /\ throttle = [c \in COMPONENTS \cup {"data"} |-> NEVER]
    /\ ran = [c \in COMPONENTS \cup {"data"} |-> NEVER]
    /\ pc = "idle"
    /\ err = NoExc
    /\ call = NoCall
    /\ steps = <<>>
    /\ io = <<>>
    /\ entity = NoEntity

\* time passes between two operations
Elapse(delays) ==
    /\ pc = "idle"
    /\ ticks < MaxTicks
    /\ \E d \in delays : now' = now + d
    /\ ticks' = ticks + 1
    /\ UNCHANGED <<entity, location, master, sub, data, cache, throttle, pc, err,
                   ran, call, steps, io>>

Tick == Elapse(Delays)

\* a step of an operation returns (pc moves on) or raises (the operation ends)
Outcome(exc, next) ==
    /\ pc' = IF exc = NoExc THEN next ELSE "raised"
    /\ err' = exc

\* how the requests of a step went: none made, a status of 401 on the
\* envelope of a staged call, another failure (a transport failure, a status
\* other than 200, an empty result), or a payload received
\* a forecast payload of a schema version that is not supported
Unsupported(resp) ==
    /\ resp.kind = "json"
    /\ "list" \in DOMAIN resp.body
    /\ resp.body.list # <<>>
    /\ "version" \in DOMAIN resp.body.list[1]
    /\ resp.body.list[1].version # "1.0"

FetchStatus(events, env, dat) ==
    LET gets == { i \in DOMAIN events : events[i].ev = "get" }
        bad(resp) == \/ resp.kind # "json"
                     \/ "estado" \in DOMAIN resp.body
                     \/ "descripcion" \in DOMAIN resp.body
                     \/ resp.body = [list |-> <<>>]
    IN IF gets = {} THEN "none"
       ELSE IF \E i \in gets : events[i].name = "ciudades"
       THEN IF bad(dat) THEN "failed" ELSE "ok"
       ELSE IF /\ env.kind = "json"
               /\ "estado" \in DOMAIN env.body
               /\ env.body.estado = HTTP_UNAUTHORIZED
       THEN "unauthorized"
       ELSE IF Cardinality(gets) = 1 THEN "failed"
       ELSE IF bad(dat) THEN "failed"
       ELSE IF Unsupported(dat) THEN "unsupported" ELSE "ok"

\* AemetData.update is called and its Throttle lets the call through
Update ==
    /\ pc = "idle"
    /\ ~Throttled(throttle["data"], now)
    /\ pc' = "ws_update"
    /\ err' = NoExc
    /\ ran' = [ran EXCEPT !["data"] = now]
    /\ call' = [op |-> "update"]
    /\ steps' = <<>>
    /\ io' = <<>>
    /\ UNCHANGED <<entity, now, ticks, location, master, sub, data, cache, throttle>>

\* AemetData.update is called inside the throttle window: nothing runs
UpdateThrottled ==
    /\ pc = "idle"
    /\ Throttled(throttle["data"], now)
    /\ pc' = "done"
    /\ err' = NoExc
    /\ call' = [op |-> "update"]
    /\ steps' = <<[step |-> "throttled"]>>
    /\ io' = <<>>
    /\ UNCHANGED <<entity, now, ticks, location, master, sub, data, cache, throttle,
                   ran>>

\* the answers to the second request of a staged call: it is made only when
\* the envelope carries the status 200, and it has no answer otherwise
Answers(env, payloads) ==
    IF /\ env.kind = "json"
       /\ "estado" \in DOMAIN env.body
       /\ env.body.estado = HTTP_OK
    THEN payloads
    ELSE {Transport}

\* self.weather_stations.update() / self.cities.update()
MasterStep(cls, here, next, name) ==
    /\ pc = here
    /\ \E env \in EnvelopeResponses :
       \E dat \in IF cls = "ciudades" THEN CatalogResponses({FullCatalog})
                   ELSE Answers(env, CatalogResponses({FullCatalog})) :
          \E r \in {master_update(master[cls].data, cls, cache, now, env, dat)} :
             /\ master' = [master EXCEPT ![cls].data = r.data]
             /\ cache' = r.cache
             /\ io' = r.io
             /\ steps' = Append(steps, [step |-> name,
                                        fetch |-> FetchStatus(r.io, env, dat)])
             /\ Outcome(r.exc, next)
    /\ UNCHANGED <<entity, now, ticks, location, sub, data, throttle, ran, call>>

\* update_distance(self.location, force)
DistanceStep(cls, here, next, name, force) ==
    /\ pc = here
    /\ \E r \in {update_distance(master[cls], cls, location, force)} :
          /\ master' = [master EXCEPT ![cls].nearest = r.nearest]
          /\ Outcome(r.exc, next)
    /\ steps' = Append(steps, [step |-> name, force |-> force])
    /\ io' = <<>>
    /\ UNCHANGED <<entity, now, ticks, location, sub, data, cache, throttle, ran, call>>

\* the entry a component fetches for when called with nearest=n
Target(comp, n) == IF n # NULL THEN n ELSE sub[comp].nearest

Responses(comp, n) ==
    IF n = NULL THEN {Transport}
    ELSE IF comp = "currently" THEN ObservationResponses(n.codigo)
    ELSE ForecastResponses(n.codigo)

\* the section of the snapshot a component contributes, lines 947-955
Section(s) == IF s.data # NULL THEN s.data.val ELSE NULL

\* the snapshot built from the components, lines 946-957
Snapshot(s, t) ==
    [currently |-> Section(s["currently"]),
     hourly |-> Section(s["horaria"]),
     daily |-> Section(s["diaria"]),
     saved |-> t]

\* a component step that publishes its section as soon as it has it
ComponentStepPublishing(comp, cls, here, next, name) ==
    /\ pc = here
    /\ \E env \in EnvelopeResponses :
       \E dat \in Answers(env, Responses(comp, Target(comp,
                                                      master[cls].nearest))) :
          \E r \in {component_update(comp, sub[comp], throttle[comp],
                                    master[cls].nearest, cache, now, env, dat)} :
             /\ sub' = [sub EXCEPT ![comp] = r.sub]
             /\ data' = [currently |-> Section(sub'["currently"]),
                         hourly |-> Section(sub'["horaria"]),
                         daily |-> Section(sub'["diaria"]),
                         saved |-> now]
             /\ throttle' = [throttle EXCEPT ![comp] = r.stamp]
             /\ ran' = IF r.skipped THEN ran ELSE [ran EXCEPT ![comp] = now]
             /\ cache' = r.cache
             /\ io' = r.io
             /\ steps' = Append(steps, [step |-> name, skipped |-> r.skipped,
                                        fetch |-> FetchStatus(r.io, env, dat)])
             /\ Outcome(r.exc, next)
    /\ UNCHANGED <<entity, now, ticks, location, master, call>>

\* self.currently.update(nearest=...), self.hourly.update, self.daily.update
ComponentStep(comp, cls, here, next, name) ==
    /\ pc = here
    /\ \E env \in EnvelopeResponses :
       \E dat \in Answers(env, Responses(comp, Target(comp,
                                                      master[cls].nearest))) :
          \E r \in {component_update(comp, sub[comp], throttle[comp],
                                    master[cls].nearest, cache, now, env, dat)} :
             /\ sub' = [sub EXCEPT ![comp] = r.sub]
             /\ throttle' = [throttle EXCEPT ![comp] = r.stamp]
             /\ ran' = IF r.skipped THEN ran ELSE [ran EXCEPT ![comp] = now]
             /\ cache' = r.cache
             /\ io' = r.io
             /\ steps' = Append(steps, [step |-> name, skipped |-> r.skipped,
                                        fetch |-> FetchStatus(r.io, env, dat)])
             /\ Outcome(r.exc, next)
    /\ UNCHANGED <<entity, now, ticks, location, master, data, call>>

RefreshStations ==
    MasterStep("estaciones", "ws_update", "ws_distance", "refresh_stations")
\* a cycle that goes from the station's resolution to the municipalities
ResolveStationThenCities ==
    DistanceStep("estaciones", "ws_distance", "ct_update", "resolve_station", FALSE)
ResolveStation ==
    DistanceStep("estaciones", "ws_distance", "cur_update", "resolve_station", FALSE)
Observation ==
    ComponentStep("currently", "estaciones", "cur_update", "ct_update", "observation")
RefreshCities ==
    MasterStep("ciudades", "ct_update", "ct_distance", "refresh_cities")
ResolveCity ==
    DistanceStep("ciudades", "ct_distance", "hr_update", "resolve_city", FALSE)
Hourly ==
    ComponentStep("horaria", "ciudades", "hr_update", "dy_update", "hourly")
Daily ==
    ComponentStep("diaria", "ciudades", "dy_update", "assemble", "daily")

Assemble ==
    /\ pc = "assemble"
    /\ data' = Snapshot(sub, now)
    /\ pc' = "persist"
    /\ steps' = Append(steps, [step |-> "assemble"])
    /\ io' = <<>>
    /\ UNCHANGED <<entity, now, ticks, location, master, sub, cache, throttle, err,
                   ran, call>>

\* line 959, and the Throttle records the completed call
Persist ==
    /\ pc = "persist"
    /\ cache' = save_to_file(cache, "data", data)
    /\ throttle' = [throttle EXCEPT !["data"] = now]
    /\ pc' = "done"
    /\ steps' = Append(steps, [step |-> "persist"])
    /\ io' = <<Write("data")>>
    /\ UNCHANGED <<entity, now, ticks, location, master, sub, data, err, ran, call>>

\* AemetData.update_location(latitude, longitude), lines 916-918
UpdateLocation ==
    /\ pc = "idle"
    /\ \E p \in Places : location' = p
    /\ pc' = "ul_ct_distance"
    /\ err' = NoExc
    /\ call' = [op |-> "update_location"]
    /\ steps' = <<>>
    /\ io' = <<>>
    /\ UNCHANGED <<entity, now, ticks, master, sub, data, cache, throttle, ran>>

\* update_location(None, ...): line 917
UpdateLocationNone ==
    /\ pc = "idle"
    /\ pc' = "raised"
    /\ err' = "ValueError"
    /\ call' = [op |-> "update_location"]
    /\ steps' = <<>>
    /\ io' = <<>>
    /\ UNCHANGED <<entity, now, ticks, location, master, sub, data, cache, throttle,
                   ran>>

\* lines 920-921
RelocateCities ==
    DistanceStep("ciudades", "ul_ct_distance", "ul_ws_distance", "resolve_city", TRUE)
\* a re-resolution of the station that keeps an entry already resolved
RelocateStationsUnforced ==
    DistanceStep("estaciones", "ul_ws_distance", "ul_propagate", "resolve_station", FALSE)
RelocateStations ==
    DistanceStep("estaciones", "ul_ws_distance", "ul_propagate", "resolve_station", TRUE)

\* lines 923-925
Propagate ==
    /\ pc = "ul_propagate"
    /\ sub' = [sub EXCEPT !["currently"].nearest = master["estaciones"].nearest,
                          !["horaria"].nearest = master["ciudades"].nearest,
                          !["diaria"].nearest = master["ciudades"].nearest]
    /\ pc' = "done"
    /\ steps' = Append(steps, [step |-> "propagate"])
    /\ io' = <<>>
    /\ UNCHANGED <<entity, now, ticks, location, master, data, cache, throttle, err,
                   ran, call>>

\* the operation has returned or raised: control is back with the caller
Finish ==
    /\ pc \in {"done", "raised"}
    /\ pc' = "idle"
    /\ err' = NoExc
    /\ call' = NoCall
    /\ steps' = <<>>
    /\ io' = <<>>
    /\ UNCHANGED <<entity, now, ticks, location, master, sub, data, cache, throttle,
                   ran>>

Next ==
    \/ Tick
    \/ Update
    \/ UpdateThrottled
    \/ RefreshStations
    \/ ResolveStation
    \/ Observation
    \/ RefreshCities
    \/ ResolveCity
    \/ Hourly
    \/ Daily
    \/ Assemble
    \/ Persist
    \/ UpdateLocation
    \/ UpdateLocationNone
    \/ RelocateCities
    \/ RelocateStations
    \/ Propagate
    \/ Finish

Spec == Init /\ [][Next]_vars

-----------------------------------------------------------------------------
(* State machine: one AemetMasterRecord on its own *)

\* clock advances between two calls of the resolver
CatalogDelays == {WRITE_WINDOW, STALE_AFTER, STALE_AFTER + 1}

\* AemetMasterRecord.__init__ for either class, with or without a pinned
\* code, over a cache directory that may hold the catalog
ResolverInit ==
    /\ now = 0
    /\ ticks = 0
    /\ location \in Locations
    /\ \E cls \in ENTITIES, n \in Pins :
          master = [c \in {cls} |-> [data |-> NULL, nearest |-> n]]
    /\ sub = [c \in COMPONENTS |-> [data |-> NULL, nearest |-> NULL]]
    /\ data = NULL
    /\ \E c \in InitialFiles :
          cache = [f \in CACHE_FILES |-> IF f \in ENTITIES THEN c ELSE NULL]
    /\ throttle = [c \in COMPONENTS \cup {"data"} |-> NEVER]
    /\ ran = [c \in COMPONENTS \cup {"data"} |-> NEVER]
    /\ pc = "idle"
    /\ err = NoExc
    /\ call = NoCall
    /\ steps = <<>>
    /\ io = <<>>
    /\ entity = NoEntity

Wait == Elapse(CatalogDelays)

\* AemetMasterRecord.update()
CatalogUpdate ==
    /\ pc = "idle"
    /\ \E cls \in DOMAIN master, env \in EnvelopeResponses,
          dat \in CatalogResponses(RawCatalogs) :
          \E r \in {master_update(master[cls].data, cls, cache, now, env, dat)} :
             /\ master' = [master EXCEPT ![cls].data = r.data]
             /\ cache' = r.cache
             /\ io' = r.io
             /\ call' = [op |-> "master.update", cls |-> cls,
                         before |-> master[cls].data, file |-> cache[cls],
                         env |-> env, dat |-> dat]
             /\ Outcome(r.exc, "done")
    /\ steps' = <<>>
    /\ UNCHANGED <<entity, now, ticks, location, sub, data, throttle, ran>>

\* AemetMasterRecord.update_distance(location, force)
ResolveNearest ==
    /\ pc = "idle"
    /\ \E cls \in DOMAIN master, loc \in Locations, force \in BOOLEAN :
          \E r \in {update_distance(master[cls], cls, loc, force)} :
             /\ location' = loc
             /\ master' = [master EXCEPT ![cls].nearest = r.nearest]
             /\ call' = [op |-> "master.update_distance", cls |-> cls,
                         before |-> master[cls].nearest, force |-> force]
             /\ Outcome(r.exc, "done")
    /\ steps' = <<>>
    /\ io' = <<>>
    /\ UNCHANGED <<entity, now, ticks, sub, data, cache, throttle, ran>>

ResolverNext ==
    \/ Wait
    \/ CatalogUpdate
    \/ ResolveNearest
    \/ Finish

SpecResolver == ResolverInit /\ [][ResolverNext]_vars

-----------------------------------------------------------------------------
(* The gateway alone: AemetAPI.api_call as its callers use it *)

\* the endpoints: the two catalogs (lines 61-66), which _get_master_data
\* calls cached or not, and the observation and forecast endpoints (67-74),
\* which are never called cached
Endpoints == ENTITIES \cup {"estacion", "horaria", "diaria"}

\* answers to the request that carries the payload
Payloads == CatalogResponses({<<>>, FullCatalog})

GatewayInit ==
    /\ now = 0
    /\ ticks = 0
    /\ location = 0
    /\ master = [c \in ENTITIES |-> [data |-> NULL, nearest |-> NULL]]
    /\ sub = [c \in COMPONENTS |-> [data |-> NULL, nearest |-> NULL]]
    /\ data = NULL
    /\ \E c \in InitialFiles :
          cache = [f \in CACHE_FILES |-> IF f \in ENTITIES THEN c ELSE NULL]
    /\ throttle = [c \in COMPONENTS \cup {"data"} |-> NEVER]
    /\ ran = [c \in COMPONENTS \cup {"data"} |-> NEVER]
    /\ pc = "idle"
    /\ err = NoExc
    /\ call = NoCall
    /\ steps = <<>>
    /\ io = <<>>
    /\ entity = NoEntity

\* AemetAPI.api_call(api_url, cached)
GatewayCall ==
    /\ pc = "idle"
    /\ \E url \in Endpoints, cached \in BOOLEAN,
          env \in EnvelopeResponses, dat \in Payloads :
          /\ cached => url \in ENTITIES
          /\ \E r \in {api_call(url, cached,
                                 IF url \in ENTITIES THEN cache[url] ELSE NULL,
                                 env, dat)} :
                /\ io' = r.io
                /\ call' = [op |-> "api_call", url |-> url, cached |-> cached,
                            env |-> env, dat |-> dat, val |-> r.val]
                /\ Outcome(r.exc, "done")
    /\ steps' = <<>>
    /\ UNCHANGED <<entity, now, ticks, location, master, sub, data, cache, throttle,
                   ran>>

GatewayNext ==
    \/ GatewayCall
    \/ Finish

SpecGateway == GatewayInit /\ [][GatewayNext]_vars

-----------------------------------------------------------------------------
(* The normalizers alone: _clean_currently_data, _refactor_forecast and     *)
(* _clean_master_data applied to the payloads the gateway can hand them     *)

\* the readings of one station: the time of the reading and one measurement
StationReadings ==
    [idema : {<<"a">>}, fint : 1..MaxReadings, ta : {10, 20}]

ReadingLists == UNION { [1..n -> StationReadings] : n \in 0..MaxReadings }

NormalizeInit ==
    /\ now = 0
    /\ ticks = 0
    /\ location = 0
    /\ master = [c \in ENTITIES |-> [data |-> NULL, nearest |-> NULL]]
    /\ sub = [c \in COMPONENTS |-> [data |-> NULL, nearest |-> NULL]]
    /\ data = NULL
    /\ cache = [f \in CACHE_FILES |-> NULL]
    /\ throttle = [c \in COMPONENTS \cup {"data"} |-> NEVER]
    /\ ran = [c \in COMPONENTS \cup {"data"} |-> NEVER]
    /\ pc = "idle"
    /\ err = NoExc
    /\ call = NoCall
    /\ steps = <<>>
    /\ io = <<>>
    /\ entity = NoEntity

\* AemetWeather._clean_currently_data(raw_data)
NormalizeObservation ==
    /\ pc = "idle"
    /\ \E raw \in ReadingLists :
          \E r \in {clean_currently_data([list |-> raw])} :
             /\ call' = [op |-> "_clean_currently_data", raw |-> raw,
                         val |-> r.val]
             /\ Outcome(r.exc, "done")
    /\ steps' = <<>>
    /\ UNCHANGED <<entity, now, ticks, location, master, sub, data, cache, throttle,
                   ran, io>>

\* the periodo of a sensor entry: the whole day, a half of it, one hour
Periods == {<<0, 24>>, <<12, 24>>, <<8, 8>>}

SkyEntries ==
    {[value |-> [scalar |-> "11"]]}
    \cup {[periodo |-> p, value |-> [scalar |-> "11"]] : p \in Periods}

\* the calendar days of a forecast
Dates == {1, 2}

ForecastDays ==
    [fecha : Dates,
     estadoCielo : { [list |-> l] :
                       l \in UNION { [1..n -> SkyEntries] :
                                        n \in 0..MaxPeriods } }]

\* the days of one payload, each date at most once, in any order
DayLists ==
    { dia \in UNION { [1..n -> ForecastDays] : n \in 0..Cardinality(Dates) } :
        \A i, j \in DOMAIN dia : dia[i].fecha = dia[j].fecha => i = j }

\* how a payload gives the value s: as a scalar or first in a list, or the
\* empty string in its place, or a list of nothing
ValuesOf(s) ==
    { [scalar |-> s], [scalar |-> ""], [list |-> <<s>>],
      [list |-> <<"", s>>], [list |-> <<>>] }

\* a day of the daily forecast: the sky of the whole day and of its halves,
\* and the temperatures of the day
DailySky ==
    [periodo : {<<0, 24>>, <<0, 12>>, <<12, 24>>}, value : ValuesOf("11")]

DailyDays ==
    LET skies == { [list |-> l] :
                     l \in UNION { [1..n -> DailySky] : n \in 0..MaxPeriods } }
    IN [fecha : {1}, estadoCielo : skies]
       \cup [fecha : {1}, estadoCielo : skies,
             temperatura : [maxima : {[scalar |-> "20"], [scalar |-> ""]},
                            minima : {[scalar |-> "5"], [scalar |-> ""]}]]

\* a day of the hourly forecast: the sky and the temperature of some hours
HourlyDays ==
    [fecha : {1},
     estadoCielo : { [list |-> l] :
                       l \in UNION { [1..n -> [periodo : {<<8, 8>>},
                                               value : ValuesOf("11")]] :
                                        n \in 0..1 } },
     temperatura : { [list |-> l] :
                       l \in UNION { [1..n -> [periodo : {<<8, 8>>, <<9, 9>>},
                                               value : ValuesOf("20")]] :
                                        n \in 0..MaxPeriods } }]

ForecastPayloads ==
    [version : {"1.0", "2.0"}, nombre : {<<"a">>}, dia : DayLists]
    \cup [version : {"1.0"}, nombre : {<<"a">>},
          dia : { <<d>> : d \in DailyDays \cup HourlyDays }]

\* AemetForecast._refactor_forecast(raw_data)
NormalizeForecast ==
    /\ pc = "idle"
    /\ \E raw \in ForecastPayloads, mode \in {"horaria", "diaria"} :
          \E r \in {refactor_forecast([list |-> <<raw>>], mode)} :
             /\ call' = [op |-> "_refactor_forecast", raw |-> raw,
                         mode |-> mode, val |-> r.val]
             /\ Outcome(r.exc, "done")
    /\ steps' = <<>>
    /\ UNCHANGED <<entity, now, ticks, location, master, sub, data, cache, throttle,
                   ran, io>>

\* what _clean_master_data is given: the list the upstream returned, or the
\* catalog a cache file holds, cleaned and stamped at some earlier minute
\* raw codes: with the prefix, with it twice, with it alone, without it, with
\* its first letter only, and with "id" elsewhere than at the start
RawCodes ==
    { <<"i", "d", "a">>, <<"i", "d", "i", "d", "a">>, <<"i", "d">>, <<"b">>,
      <<"i", "a">>, <<"i">>, <<"a", "i", "d">>, <<"d", "i", "d">> }

CatalogInputs ==
    { [list |-> c] : c \in RawCatalogs }
    \cup { [list |-> <<[id |-> c, pos |-> 0]>>] : c \in RawCodes }
    \cup { clean_master_data([list |-> c], t).val :
              c \in RawCatalogs, t \in {0, 3} }

\* AemetMasterRecord._clean_master_data(data), and once more on its result
\* some minutes later
NormalizeCatalog ==
    /\ pc = "idle"
    /\ \E raw \in CatalogInputs, t \in {5, 6}, later \in {0, 2} :
          \E r \in {clean_master_data(raw, t)} :
             \E rr \in {clean_master_data(r.val, t + later)} :
                /\ call' = [op |-> "_clean_master_data", raw |-> raw,
                            at |-> t, again |-> t + later,
                            once |-> r.val, twice |-> rr.val]
                /\ Outcome(IF r.exc # NoExc THEN r.exc ELSE rr.exc, "done")
    /\ steps' = <<>>
    /\ UNCHANGED <<entity, now, ticks, location, master, sub, data, cache, throttle,
                   ran, io>>

NormalizeNext ==
    \/ NormalizeObservation
    \/ NormalizeForecast
    \/ NormalizeCatalog
    \/ Finish

SpecNormalize == NormalizeInit /\ [][NormalizeNext]_vars

-----------------------------------------------------------------------------
(* The presentation layer: the weather entity AemetWeather of weather.py *)

\* dict.get(key): None, or the value as the record [value |-> v]
DictGet(rec, key) ==
    IF key \in DOMAIN rec THEN [value |-> rec[key]] ELSE NULL

\* the clock as the 19 characters of isoformat(), cut to the hour and to the
\* day: the clock starts on day 1 at 00:00
HourStamp(t) == <<1 + (t \div 1440), (t \div 60) % 24>>
DayStamp(t) == <<1 + (t \div 1440), 0>>

\* MAP_CONDITION.get and WIND_DIRECTIONS.get, for the codes of the model
MapCondition(code) ==
    IF code # NULL /\ code.value = "11" THEN [value |-> "sunny"] ELSE NULL

WindDirection(code) ==
    IF code # NULL /\ code.value = "SO" THEN [value |-> "SW"]
    ELSE IF code # NULL /\ code.value = "N" THEN [value |-> "N"]
    ELSE NULL

\* the properties that read a field of the observation and fall back to the
\* hourly record of the current hour
FieldAccessors ==
    {"temperature", "humidity", "pressure", "wind_speed", "wind_bearing",
     "visibility", "condition"}

\* temperature, humidity, wind_speed, wind_bearing, pressure, visibility,
\* condition: [exc, val]
Accessor(e, field) ==
    IF e.currently = NULL THEN [exc |-> "AttributeError", val |-> NULL]
    ELSE IF DictGet(e.currently, field) = NULL /\ e.current_hour = UNSET
    THEN [exc |-> "AttributeError", val |-> NULL]
    ELSE LET value == IF DictGet(e.currently, field) # NULL
                      THEN DictGet(e.currently, field)
                      ELSE DictGet(e.current_hour, field)
         IN [exc |-> NoExc,
             val |-> IF field = "wind_bearing" THEN WindDirection(value)
                     ELSE IF field = "condition" THEN MapCondition(value)
                     ELSE value]

\* attribution: [exc, val]
Attribution(e) ==
    IF e.data = NULL THEN [exc |-> NoExc, val |-> NULL]
    ELSE IF e.data.daily = NULL THEN [exc |-> "TypeError", val |-> NULL]
    ELSE [exc |-> NoExc,
          val |-> DictGet(e.data.daily.information, "attribution")]

\* entry.get("{inicio}-{fin}") for the six hours around the clock: the hours
\* are written without a leading zero, the keys of the normalizer with one
PartOfDay(entry, t) ==
    LET inicio == (((t \div 60) % 24) \div 6) * 6
        found == { p \in entry.parts :
                     inicio >= 10 /\ p.horas = <<inicio, inicio + 6>> }
    IN IF "parts" \in DOMAIN entry /\ found # {}
       THEN CHOOSE p \in found : TRUE
       ELSE NULL

\* one entry of the daily forecast
DailyEntry(entry, t) ==
    LET condition == MapCondition(DictGet(entry, "condition"))
        part == PartOfDay(entry, t)
    IN IF condition # NULL
       THEN [datetime |-> DictGet(entry, "datetime"),
             temperature |-> DictGet(entry, "temperature"),
             templow |-> DictGet(entry, "templow"),
             precipitation |-> DictGet(entry, "precipitation"),
             wind_speed |-> DictGet(entry, "wind_speed"),
             wind_bearing |-> DictGet(entry, "wind_speed"),
             condition |-> condition]
       ELSE [datetime |-> DictGet(entry, "datetime"),
             temperature |-> DictGet(entry, "temperature"),
             templow |-> DictGet(entry, "templow"),
             precipitation |-> DictGet(entry, "precipitation"),
             wind_speed |-> DictGet(part, "wind_speed"),
             wind_bearing |-> DictGet(part, "wind_bearing"),
             condition |-> MapCondition(DictGet(part, "condition"))]

\* one entry of the hourly forecast
HourlyEntry(entry) ==
    [datetime |-> DictGet(entry, "datetime"),
     temperature |-> DictGet(entry, "temperature"),
     precipitation |-> DictGet(entry, "precipitation"),
     condition |-> MapCondition(DictGet(entry, "condition"))]

\* forecast: [exc, val]; utc is the clock of datetime.utcnow()
Forecast(e, t, utc) ==
    IF e.mode = "daily"
    THEN IF e.daily = NULL THEN [exc |-> "TypeError", val |-> NULL]
         ELSE LET kept == SelectSeq(e.daily.list,
                             LAMBDA r : ~EarlierStamp(r.datetime, DayStamp(t)))
              IN IF \E i \in DOMAIN kept :
                       /\ MapCondition(DictGet(kept[i], "condition")) = NULL
                       /\ PartOfDay(kept[i], t) = NULL
                 THEN [exc |-> "AttributeError", val |-> NULL]
                 ELSE [exc |-> NoExc,
                       val |-> [i \in DOMAIN kept |-> DailyEntry(kept[i], t)]]
    ELSE IF e.hourly = NULL THEN [exc |-> "TypeError", val |-> NULL]
         ELSE LET kept == SelectSeq(e.hourly.list,
                             LAMBDA r : ~EarlierStamp(r.datetime,
                                                      HourStamp(utc)))
              IN [exc |-> NoExc,
                  val |-> [i \in DOMAIN kept |-> HourlyEntry(kept[i])]]

\* the loop that ends update(): the last record of the current hour, if any,
\* becomes _aemet_forecast_current_hour
CurrentHour(old, hourly, t) ==
    LET hits == { i \in DOMAIN hourly : hourly[i].datetime = HourStamp(t) }
    IN IF hits = {} THEN old
       ELSE hourly[CHOOSE i \in hits : \A j \in hits : j <= i]

\* the body of AemetWeather.update() after self._aemet.update() returned,
\* on the aggregator's snapshot d and components s: [exc, entity]
EntityRefresh(e, d, s, t) ==
    LET e1 == [e EXCEPT !.data = d]
    IN IF s["horaria"].data = NULL \/ s["horaria"].data.val = NULL
       THEN [exc |-> "AttributeError", entity |-> e1]
       ELSE LET e2 == [e1 EXCEPT
                         !.hourly = [list |-> s["horaria"].data.val.data]]
            IN IF s["diaria"].data = NULL \/ s["diaria"].data.val = NULL
               THEN [exc |-> "AttributeError", entity |-> e2]
               ELSE LET e3 == [e2 EXCEPT
                                 !.daily = [list |-> s["diaria"].data.val.data]]
                    IN IF \/ s["currently"].data = NULL
                          \/ s["currently"].data.val = NULL
                       THEN [exc |-> "AttributeError", entity |-> e3]
                       ELSE [exc |-> NoExc,
                             entity |->
                               [e3 EXCEPT
                                  !.currently = s["currently"].data.val.data,
                                  !.current_hour =
                                      CurrentHour(e.current_hour,
                                                  e3.hourly.list, t),
                                  !.stamp = t]]

-----------------------------------------------------------------------------
(* State machine: the weather entity over an aggregator whose update() may  *)
(* leave any of its sections null                                           *)

\* the data of a normalized observation: with and without the fields read
ObservationData ==
    { [temperature |-> 20, wind_bearing |-> "SO", condition |-> "11"],
      [humidity |-> 50] }

\* the hourly record of an hour: its temperature tells the hours apart
HourlyRecord(stamp) ==
    [datetime |-> stamp, temperature |-> 15 + stamp[2], wind_bearing |-> "N",
     condition |-> "11"]

DailyRecord(stamp) ==
    [datetime |-> stamp, temperature |-> 25, templow |-> 5,
     wind_speed |-> "10.0", wind_bearing |-> "N", condition |-> "11",
     parts |-> {}]

\* the record lists of a normalized forecast, in ascending order of datetime
HourlyLists ==
    { <<HourlyRecord(<<1, 1>>)>>,
      <<HourlyRecord(<<1, 0>>), HourlyRecord(<<1, 1>>)>> }

DailyLists == { <<DailyRecord(<<1, 0>>), DailyRecord(<<2, 0>>)>> }

\* what a component holds after a cycle of the aggregator: for the
\* observation nothing (its station was never resolved) or a section, for
\* a forecast a null section (unsupported version) or a section
ComponentData(comp, t) ==
    (IF comp = "currently" THEN {NULL} ELSE {[val |-> NULL, saved |-> t]})
    \cup { [val |-> [information |-> [attribution |-> "AEMET"], data |-> d],
            saved |-> t] :
             d \in IF comp = "currently" THEN ObservationData
                   ELSE IF comp = "horaria" THEN HourlyLists
                   ELSE DailyLists }

\* datetime.utcnow() is behind the local clock by the offset of the time zone
UtcOffsets == {0, 60}

\* an hour and a day
WeatherDelays == {60, 1440}

WeatherInit ==
    /\ now = 0
    /\ ticks = 0
    /\ location = 0
    /\ master = [c \in ENTITIES |-> [data |-> NULL, nearest |-> NULL]]
    /\ sub = [c \in COMPONENTS |-> [data |-> NULL, nearest |-> NULL]]
    /\ data = NULL
    /\ cache = [f \in CACHE_FILES |-> NULL]
    /\ throttle = [c \in COMPONENTS \cup {"data"} |-> NEVER]
    /\ ran = [c \in COMPONENTS \cup {"data"} |-> NEVER]
    /\ pc = "idle"
    /\ err = NoExc
    /\ call = NoCall
    /\ steps = <<>>
    /\ io = <<>>
    /\ \E mode \in {"hourly", "daily"} :
          entity = [NoEntity EXCEPT !.mode = mode]

WeatherTick == Elapse(WeatherDelays)

\* AemetWeather.update(), weather.py.  self._aemet.update() is skipped by
\* its own Throttle, or raises, or returns with its components updated and
\* their snapshot assembled; then the entity reads the aggregator
EntityUpdate ==
    /\ pc = "idle"
    /\ ~Throttled(entity.stamp, now)
    /\ \/ /\ Throttled(throttle["data"], now)
          /\ UNCHANGED <<sub, data, throttle>>
          /\ \E r \in {EntityRefresh(entity, data, sub, now)} :
                /\ entity' = r.entity
                /\ Outcome(r.exc, "done")
       \/ /\ ~Throttled(throttle["data"], now)
          /\ Outcome("ConnectionError", "done")
          /\ UNCHANGED <<sub, data, throttle, entity>>
       \/ /\ ~Throttled(throttle["data"], now)
          /\ \E c \in ComponentData("currently", now),
                h \in ComponentData("horaria", now),
                d \in ComponentData("diaria", now) :
                sub' = [sub EXCEPT !["currently"].data = c,
                                   !["horaria"].data = h,
                                   !["diaria"].data = d]
          /\ data' = Snapshot(sub', now)
          /\ throttle' = [throttle EXCEPT !["data"] = now]
          /\ \E r \in {EntityRefresh(entity, data', sub', now)} :
                /\ entity' = r.entity
                /\ Outcome(r.exc, "done")
    /\ call' = [op |-> "entity_update", skipped |-> FALSE]
    /\ steps' = <<>>
    /\ UNCHANGED <<now, ticks, location, master, cache, ran, io>>

\* the Throttle of AemetWeather.update()
EntityUpdateThrottled ==
    /\ pc = "idle"
    /\ Throttled(entity.stamp, now)
    /\ pc' = "done"
    /\ err' = NoExc
    /\ call' = [op |-> "entity_update", skipped |-> TRUE]
    /\ steps' = <<>>
    /\ UNCHANGED <<entity, now, ticks, location, master, sub, data, cache,
                   throttle, ran, io>>

\* one of the properties of the entity is read
EntityRead ==
    /\ pc = "idle"
    /\ \/ \E field \in FieldAccessors :
             \E r \in {Accessor(entity, field)} :
                /\ call' = [op |-> "read", name |-> field, val |-> r.val]
                /\ Outcome(r.exc, "done")
       \/ \E r \in {Attribution(entity)} :
             /\ call' = [op |-> "read", name |-> "attribution", val |-> r.val]
             /\ Outcome(r.exc, "done")
       \/ \E off \in UtcOffsets :
             \E r \in {Forecast(entity, now, now - off)} :
                /\ call' = [op |-> "read", name |-> "forecast",
                            utc |-> now - off, val |-> r.val]
                /\ Outcome(r.exc, "done")
    /\ steps' = <<>>
    /\ UNCHANGED <<entity, now, ticks, location, master, sub, data, cache,
                   throttle, ran, io>>

WeatherNext ==
    \/ WeatherTick
    \/ EntityUpdate
    \/ EntityUpdateThrottled
    \/ EntityRead
    \/ Finish

SpecWeather == WeatherInit /\ [][WeatherNext]_vars

-----------------------------------------------------------------------------
(* Properties of the catalog resolver, checked under SpecResolver *)

Populated(d) == IsCatalog(d) /\ d.entries # <<>>

DistancesTo(list, loc) == { vincenty(list[i].pos, loc) : i \in DOMAIN list }

LeastDistance(list, loc) ==
    CHOOSE d \in DistancesTo(list, loc) : \A e \in DistancesTo(list, loc) : d <= e

\* the first entry, in catalog order, at the least distance from loc
FirstAtLeastDistance(list, loc) ==
    list[CHOOSE i \in DOMAIN list :
            /\ vincenty(list[i].pos, loc) = LeastDistance(list, loc)
            /\ \A j \in 1..(i - 1) :
                  vincenty(list[j].pos, loc) # LeastDistance(list, loc)]

\* the entry a distance search over the catalog resolves to for loc
Resolution(cls, list, loc) ==
    IF \/ cls = "ciudades" /\ LeastDistance(list, loc) <= THRESHOLD_CIUDADES
       \/ cls = "estaciones" /\ LeastDistance(list, loc) <= THRESHOLD_ESTACIONES
    THEN FirstAtLeastDistance(list, loc)
    ELSE NULL

DistanceCallEnded ==
    pc \in {"done", "raised"} /\ call.op = "master.update_distance"

\* C1: after a call of update_distance on a populated catalog has returned,
\* forced or not, pinned or not, the resolved entry is null or an entry at
\* most 25 km (municipalities) / 40 km (stations) from the query location.
C1_NearestWithinThreshold ==
    (DistanceCallEnded /\ pc = "done" /\ Populated(master[call.cls].data)) =>
        LET n == master[call.cls].nearest
        IN \/ n = NULL
           \/ /\ IsEntry(n)
              /\ \/ /\ call.cls = "ciudades"
                    /\ vincenty(location, n.pos) <= THRESHOLD_CIUDADES
                 \/ /\ call.cls = "estaciones"
                    /\ vincenty(location, n.pos) <= THRESHOLD_ESTACIONES

\* a municipality resolved from a pinned code, exactly 25 km away
C1_Witness ==
    /\ DistanceCallEnded /\ pc = "done"
    /\ call.cls = "ciudades"
    /\ IsStr(call.before)
    /\ Populated(master[call.cls].data)
    /\ IsEntry(master[call.cls].nearest)
    /\ vincenty(location, master[call.cls].nearest.pos) = THRESHOLD_CIUDADES

\* C2: with no pinned code, and no entry resolved yet or force set, a call of
\* update_distance on a populated catalog raises nothing and resolves the
\* first entry in catalog order at the least distance from the location, or
\* null when that distance is beyond the catalog's threshold.
C2_NearestIsFirstMinimum ==
    (/\ DistanceCallEnded
     /\ ~IsStr(call.before)
     /\ (call.before = NULL \/ call.force)
     /\ Populated(master[call.cls].data)) =>
        /\ pc = "done"
        /\ master[call.cls].nearest =
              Resolution(call.cls, master[call.cls].data.entries, location)

\* two entries at the same distance: the first one of the catalog is taken
C2_Witness ==
    /\ DistanceCallEnded /\ pc = "done"
    /\ call.before = NULL
    /\ Populated(master[call.cls].data)
    /\ Len(master[call.cls].data.entries) = 2
    /\ master[call.cls].data.entries[1].pos # master[call.cls].data.entries[2].pos
    /\ vincenty(location, master[call.cls].data.entries[1].pos)
          = vincenty(location, master[call.cls].data.entries[2].pos)
    /\ master[call.cls].nearest = master[call.cls].data.entries[1]

\* C3: a call of update_distance with a pinned code that no entry of the
\* catalog carries raises an error.
C3_InvalidPinRaises ==
    (/\ DistanceCallEnded
     /\ IsStr(call.before)
     /\ IsCatalog(master[call.cls].data)
     /\ \A i \in DOMAIN master[call.cls].data.entries :
           master[call.cls].data.entries[i].codigo # call.before.pin) =>
        pc = "raised"

\* C10: the first update() of a catalog reads the cache first; when the
\* cache holds the catalog no request is issued and the cached catalog
\* becomes the catalog in memory; a request is issued only when the cache
\* holds nothing.
C10_CacheBeforeFetch ==
    (/\ pc \in {"done", "raised"}
     /\ call.op = "master.update"
     /\ call.before = NULL) =>
        /\ io # <<>>
        /\ io[1] = Read(call.cls)
        /\ call.file # NULL =>
              /\ pc = "done"
              /\ \A i \in DOMAIN io : io[i].ev # "get"
              /\ master[call.cls].data = call.file
        /\ (\E i \in DOMAIN io : io[i].ev = "get") => call.file = NULL

\* a first update() served from the cache
C10_Witness ==
    /\ pc = "done"
    /\ call.op = "master.update"
    /\ call.before = NULL
    /\ call.file # NULL
    /\ master[call.cls].data = call.file

CatalogUpdateEnded ==
    pc \in {"done", "raised"} /\ call.op = "master.update"

\* C11: update() of a resolver that holds a catalog saved more than 7 days
\* ago requests the catalog without reading the cache and, when it returns,
\* holds the cleaned answer; with a catalog of 7 days or less it issues no
\* request, raises nothing and keeps the catalog it held.
C11_StaleCatalogRefetched ==
    (CatalogUpdateEnded /\ IsCatalog(call.before)) =>
        IF now - call.before.saved > STALE_AFTER
        THEN /\ io # <<>>
             /\ io[1] = Get(call.cls)
             /\ \A i \in DOMAIN io : io[i].ev # "read"
             /\ pc = "done" =>
                   /\ master[call.cls].data.saved = now
                   /\ master[call.cls].data =
                         clean_master_data(api_request(call.dat).val, now).val
             /\ pc = "raised" => master[call.cls].data = call.before
        ELSE /\ pc = "done"
             /\ \A i \in DOMAIN io : io[i].ev # "get"
             /\ master[call.cls].data = call.before

\* a catalog of 7 days and a minute is replaced by another one
C11_Witness ==
    /\ CatalogUpdateEnded /\ pc = "done"
    /\ IsCatalog(call.before)
    /\ now - call.before.saved = STALE_AFTER + 1
    /\ master[call.cls].data.entries # <<>>
    /\ master[call.cls].data.entries # call.before.entries

CatalogWritten == \E i \in DOMAIN io : io[i] = Write(call.cls)

\* C12 as stated: an update() that returns has written the catalog to the
\* cache if and only if more than 5 minutes have passed since the catalog's
\* save timestamp.
C12_WrittenWhenOlder ==
    (CatalogUpdateEnded /\ pc = "done" /\ IsCatalog(master[call.cls].data)) =>
        (CatalogWritten <=>
            now - master[call.cls].data.saved > WRITE_WINDOW)

\* C12, amended: an update() that returns has written the catalog to the
\* cache if and only if less than 5 minutes have passed since the catalog's
\* save timestamp, and then the cache holds the catalog in memory; otherwise,
\* and when update() raises, the cache file is as it was.
C12_WrittenWhenRecent ==
    CatalogUpdateEnded =>
        /\ (pc = "done" /\ IsCatalog(master[call.cls].data)) =>
              (CatalogWritten <=>
                  now - master[call.cls].data.saved < WRITE_WINDOW)
        /\ CatalogWritten => cache[call.cls] = master[call.cls].data
        /\ ~CatalogWritten => cache[call.cls] = call.file
        /\ pc = "raised" => ~CatalogWritten

\* a catalog saved exactly 5 minutes ago is not written
C12_Witness ==
    /\ CatalogUpdateEnded /\ pc = "done"
    /\ IsCatalog(master[call.cls].data)
    /\ now - master[call.cls].data.saved = WRITE_WINDOW
    /\ ~CatalogWritten

\* C27: update() of a resolver that holds a populated catalog saved more
\* than 7 days ago, with a populated copy of it in the cache, leaves a
\* populated catalog in memory and in the cache, whatever the live request
\* answers: the old entries, or the new ones
C27_PopulatedCatalogSurvives ==
    (/\ CatalogUpdateEnded
     /\ Populated(call.before)
     /\ Populated(call.file)
     /\ now - call.before.saved > STALE_AFTER) =>
        /\ Populated(master[call.cls].data)
        /\ Populated(cache[call.cls])

\* a call of update_distance with a pinned code that the catalog carries
PinnedCallEnded ==
    /\ DistanceCallEnded
    /\ IsStr(call.before)
    /\ IsCatalog(master[call.cls].data)
    /\ \E i \in DOMAIN master[call.cls].data.entries :
          master[call.cls].data.entries[i].codigo = call.before.pin

\* the first entry of the catalog that carries the pinned code
PinnedEntry ==
    master[call.cls].data.entries[
        CHOOSE i \in DOMAIN master[call.cls].data.entries :
            /\ master[call.cls].data.entries[i].codigo = call.before.pin
            /\ \A j \in 1..(i - 1) :
                  master[call.cls].data.entries[j].codigo # call.before.pin]

\* C24 as stated: a call of update_distance with a pinned code that the
\* catalog carries leaves the entry of that code resolved, whatever its
\* distance from the location
C24_PinnedTrusted ==
    PinnedCallEnded =>
        /\ pc = "done"
        /\ master[call.cls].nearest = PinnedEntry

\* C24 amended: a non-forced call of update_distance with a pinned code that
\* the catalog carries makes no distance search, and leaves the entry of
\* that code resolved when it is within the threshold of its catalog and
\* null when it is farther
C24_PinnedWithinThreshold ==
    (PinnedCallEnded /\ ~call.force) =>
        /\ pc = "done"
        /\ master[call.cls].nearest =
              IF vincenty(location, PinnedEntry.pos) <= Threshold(call.cls)
              THEN PinnedEntry
              ELSE NULL

\* C24 witness: the pinned entry is kept although a distance search would
\* resolve another entry of the catalog
C24_Witness ==
    /\ PinnedCallEnded
    /\ ~call.force
    /\ pc = "done"
    /\ master[call.cls].nearest = PinnedEntry
    /\ PinnedEntry # FirstAtLeastDistance(master[call.cls].data.entries,
                                          location)

\* the step is a call of the resolver's operation op
ResolverCalls(op) == pc = "idle" /\ pc' # "idle" /\ call'.op = op

\* C29: a non-forced call of update_distance on a resolver that holds an
\* entry makes no search and resolves no other entry: the call returns, the
\* resolver holds the same entry or, when that entry is farther from the
\* location than the threshold, null; at an unchanged location it holds the
\* same entry.  A refresh of the catalog leaves the resolved entry alone, so
\* over non-forced calls and refreshes at one location the entry is kept
C29_ResolvedEntryKept ==
    [][\A cls \in DOMAIN master :
          /\ (/\ ResolverCalls("master.update_distance")
              /\ ~call'.force
              /\ IsEntry(master[cls].nearest)) =>
                /\ pc' = "done"
                /\ master'[cls].nearest =
                      IF vincenty(location', master[cls].nearest.pos)
                           > Threshold(cls)
                      THEN NULL
                      ELSE master[cls].nearest
                /\ location' = location =>
                      master'[cls].nearest = master[cls].nearest
          /\ ResolverCalls("master.update") =>
                master'[cls].nearest = master[cls].nearest]_vars

\* C29 witness: a non-forced call has kept the entry the resolver held,
\* although the catalog, fetched anew since, no longer carries that entry and
\* a search of it would resolve another one
C29_Witness ==
    /\ DistanceCallEnded
    /\ pc = "done"
    /\ ~call.force
    /\ IsEntry(call.before)
    /\ master[call.cls].nearest = call.before
    /\ IsCatalog(master[call.cls].data)
    /\ master[call.cls].data.saved > STALE_AFTER
    /\ master[call.cls].data.entries # <<>>
    /\ \A i \in DOMAIN master[call.cls].data.entries :
          master[call.cls].data.entries[i] # call.before

-----------------------------------------------------------------------------
(* Properties of the gateway, checked under SpecGateway *)

GatewayCallEnded == pc \in {"done", "raised"} /\ call.op = "api_call"

\* the call was not answered from the cache
Fetched ==
    ~(call.cached /\ call.url \in ENTITIES /\ cache[call.url] # NULL)

IsGet(e) == e.ev = "get"

Requests == SelectSeq(io, IsGet)

HasStatus(resp) == resp.kind = "json" /\ "estado" \in DOMAIN resp.body

\* C13: a call that is not answered from the cache issues, for the
\* municipality catalog, exactly one request and returns its payload; for a
\* staged endpoint whose envelope carries status 200, exactly two requests,
\* the second for the envelope's data, and returns the second payload; for
\* an envelope with any other status, one request only, and it raises.
C13_TwoStageProtocol ==
    (GatewayCallEnded /\ Fetched) =>
        IF call.url = "ciudades"
        THEN /\ Requests = <<Get("ciudades")>>
             /\ call.dat.kind = "json" =>
                   pc = "done" /\ call.val = call.dat.body
        ELSE HasStatus(call.env) =>
                IF call.env.body.estado = HTTP_OK
                THEN /\ Requests = <<Get(call.url), Get("datos")>>
                     /\ call.dat.kind = "json" =>
                           pc = "done" /\ call.val = call.dat.body
                ELSE /\ Requests = <<Get(call.url)>>
                     /\ pc = "raised"

\* a staged call with status 200 that returned the payload of its second
\* request
C13_Witness ==
    /\ GatewayCallEnded /\ pc = "done"
    /\ call.url = "estacion"
    /\ HasStatus(call.env)
    /\ call.env.body.estado = HTTP_OK
    /\ Len(Requests) = 2
    /\ call.dat.kind = "json"
    /\ call.val = [list |-> FullCatalog]

TransportFailure(resp) == resp.kind \in {"transport", "malformed"}

\* one of the requests the call made met a transport failure
RequestFailed ==
    IF call.url = "ciudades" THEN TransportFailure(call.dat)
    ELSE \/ TransportFailure(call.env)
         \/ /\ HasStatus(call.env)
            /\ call.env.body.estado = HTTP_OK
            /\ TransportFailure(call.dat)

\* C14: a call one of whose requests (direct, envelope or data) met a
\* connection error, a timeout or a malformed response returns the empty
\* result and raises nothing.
C14_TransportFailureIsEmpty ==
    (GatewayCallEnded /\ Fetched /\ RequestFailed) =>
        /\ pc = "done"
        /\ call.val = [list |-> <<>>]

-----------------------------------------------------------------------------
(* Properties of the update cycle, checked under Spec *)

CycleOrder ==
    <<"refresh_stations", "resolve_station", "observation", "refresh_cities",
      "resolve_city", "hourly", "daily", "assemble", "persist">>

StepNames == [i \in DOMAIN steps |-> steps[i].step]

CycleRunning == call.op = "update" /\ steps # <<[step |-> "throttled"]>>

\* C4: the steps of an update cycle that is not throttled are taken in the
\* order refresh stations, resolve station (not forced), observation,
\* refresh municipalities, resolve municipality (not forced), hourly, daily,
\* assemble, persist; a cycle that returns has taken all of them.
C4_CycleOrder ==
    CycleRunning =>
        /\ Len(steps) <= Len(CycleOrder)
        /\ StepNames = SubSeq(CycleOrder, 1, Len(steps))
        /\ \A i \in DOMAIN steps :
              "force" \in DOMAIN steps[i] => ~steps[i].force
        /\ pc = "done" => Len(steps) = Len(CycleOrder)

C4_Witness ==
    /\ CycleRunning
    /\ pc = "done"
    /\ StepNames = CycleOrder

\* the sections of the snapshot that a step's fetch feeds
SectionsOf(name) ==
    IF name \in {"refresh_stations", "observation"} THEN {"currently"}
    ELSE IF name = "refresh_cities" THEN {"hourly", "daily"}
    ELSE IF name = "hourly" THEN {"hourly"}
    ELSE IF name = "daily" THEN {"daily"}
    ELSE {}

FailedSteps ==
    { i \in DOMAIN steps :
         "fetch" \in DOMAIN steps[i] /\ steps[i].fetch \in {"failed", "unauthorized"} }

\* C5: a cycle in which a fetch failed still runs to its end, and the
\* section of the snapshot fed by the failed fetch is null.
C5_FetchFailureDegrades ==
    (CycleRunning /\ pc \in {"done", "raised"} /\ FailedSteps # {}) =>
        /\ pc = "done"
        /\ \A i \in FailedSteps : \A f \in SectionsOf(steps[i].step) :
              data[f] = NULL

\* C6: a cycle that ends with no station (no municipality) resolved has
\* assembled a snapshot whose currently (hourly and daily) section is null.
C6_UnresolvedGivesNull ==
    (CycleRunning /\ pc = "done") =>
        /\ master["estaciones"].nearest = NULL => data["currently"] = NULL
        /\ master["ciudades"].nearest = NULL =>
              data["hourly"] = NULL /\ data["daily"] = NULL

\* a call of an update() made at time now is a no-op
AggregatorNoOp ==
    /\ pc' = "done"
    /\ io' = <<>>
    /\ UNCHANGED <<master, sub, data, cache>>

ComponentNoOp(comp) ==
    /\ io' = <<>>
    /\ sub'[comp] = sub[comp]
    /\ cache' = cache

ComponentAt(comp) ==
    pc = (IF comp = "currently" THEN "cur_update"
          ELSE IF comp = "horaria" THEN "hr_update" ELSE "dy_update")

\* C7 as stated: an update() called less than 5 minutes after its last
\* invocation that ran is a no-op.
C7_ThrottledAfterRun ==
    [][/\ (/\ pc = "idle" /\ call'.op = "update"
           /\ ran["data"] # NEVER
           /\ now - ran["data"] < MIN_TIME_BETWEEN_UPDATES) => AggregatorNoOp
       /\ \A comp \in COMPONENTS :
             (/\ ComponentAt(comp)
              /\ ran[comp] # NEVER
              /\ now - ran[comp] < MIN_TIME_BETWEEN_UPDATES) => ComponentNoOp(comp)
      ]_vars

\* C7, amended: an update() called less than 5 minutes after its last
\* invocation that returned without raising is a no-op: no request, no
\* cache write, the component's result unchanged.
C7_ThrottledAfterReturn ==
    [][/\ (/\ pc = "idle" /\ call'.op = "update"
           /\ throttle["data"] # NEVER
           /\ now - throttle["data"] < MIN_TIME_BETWEEN_UPDATES) => AggregatorNoOp
       /\ \A comp \in COMPONENTS :
             (/\ ComponentAt(comp)
              /\ throttle[comp] # NEVER
              /\ now - throttle[comp] < MIN_TIME_BETWEEN_UPDATES) => ComponentNoOp(comp)
      ]_vars

\* a cycle that ran while the observation component was inside its window
C7_Witness ==
    /\ CycleRunning
    /\ \E i \in DOMAIN steps :
          /\ steps[i].step = "observation"
          /\ steps[i].skipped
    /\ sub["currently"].data # NULL

\* C8: when update_location returns, both resolvers hold the forced
\* resolution for the new location and the components point at them.
C8_LocationChangePropagates ==
    (call.op = "update_location" /\ pc = "done") =>
        /\ \A cls \in ENTITIES :
              /\ Populated(master[cls].data)
              /\ master[cls].nearest =
                    Resolution(cls, master[cls].data.entries, location)
        /\ sub["currently"].nearest = master["estaciones"].nearest
        /\ sub["horaria"].nearest = master["ciudades"].nearest
        /\ sub["diaria"].nearest = master["ciudades"].nearest

\* a move after a cycle, to a place with another station in reach and no
\* municipality: the station is replaced, the municipality dropped
C8_Witness ==
    /\ call.op = "update_location" /\ pc = "done"
    /\ IsEntry(master["estaciones"].nearest)
    /\ sub["currently"].data # NULL
    /\ sub["currently"].data.val # NULL
    /\ sub["currently"].data.val.information.weather_station
          # master["estaciones"].nearest.codigo
    /\ sub["currently"].nearest = master["estaciones"].nearest
    /\ master["ciudades"].nearest = NULL
    /\ sub["horaria"].nearest = NULL
    /\ sub["horaria"].data # NULL

\* C9: the snapshot changes only in the assemble step of a cycle, after the
\* observation, hourly and daily steps, and then to the snapshot built from
\* the three components as a whole; throttled and aborted cycles leave it.
C9_SnapshotWholesale ==
    [][data' # data =>
          /\ pc = "assemble" /\ pc' = "persist"
          /\ StepNames = SubSeq(CycleOrder, 1, 7)
          /\ data' = [currently |-> Section(sub["currently"]),
                      hourly |-> Section(sub["horaria"]),
                      daily |-> Section(sub["diaria"]),
                      saved |-> now]
      ]_vars

\* a second snapshot replaces the first
C9_Witness ==
    /\ pc = "persist"
    /\ data # NULL
    /\ cache["data"] # NULL
    /\ cache["data"] # data

\* C15: a cycle in which the envelope of a staged fetch carried status 401
\* ends by raising to the caller of update(), with an error that is none of
\* those raised for 404, 429 and the other statuses.
C15_UnauthorizedReachesCaller ==
    (/\ CycleRunning
     /\ pc \in {"done", "raised"}
     /\ \E i \in DOMAIN steps :
           "fetch" \in DOMAIN steps[i] /\ steps[i].fetch = "unauthorized") =>
        /\ pc = "raised"
        /\ err \notin {"ConnectionError", "ConnectionRefusedError", "HTTPError"}

\* the forecast component updated by a step of the cycle
ForecastOf(name) == IF name = "hourly" THEN "horaria" ELSE "diaria"

\* the step i of the running cycle fetched a forecast of an unsupported version
UnsupportedStep(i) ==
    /\ CycleRunning
    /\ i \in DOMAIN steps
    /\ steps[i].step \in {"hourly", "daily"}
    /\ steps[i].fetch = "unsupported"

\* C18: a forecast step whose payload declares a schema version other than
\* "1.0" does not raise, its component holds null for its mode from then on
\* in the cycle, and the snapshot assembled by the cycle has null in the
\* section of that forecast
C18_UnsupportedVersionGivesNull ==
    \A i \in 1..Len(CycleOrder) :
        UnsupportedStep(i) =>
            /\ Len(steps) = i => pc # "raised"
            /\ sub[ForecastOf(steps[i].step)].data # NULL
            /\ sub[ForecastOf(steps[i].step)].data.val = NULL
            /\ sub[ForecastOf(steps[i].step)].data.saved = now
            /\ pc \in {"persist", "done"} =>
                  /\ steps[i].step = "hourly" => data.hourly = NULL
                  /\ steps[i].step = "daily" => data.daily = NULL

\* C18 witness: a published snapshot whose hourly section is null because of
\* the version of the payload, while its daily section holds a forecast
C18_Witness ==
    /\ UnsupportedStep(6)
    /\ steps[6].step = "hourly"
    /\ pc = "done"
    /\ data.hourly = NULL
    /\ data.daily # NULL
    /\ cache["data"] = data

\* the component and the resolver of a step of the cycle
StepComponent ==
    [observation |-> "currently", hourly |-> "horaria", daily |-> "diaria"]
StepResolver ==
    [observation |-> "estaciones", hourly |-> "ciudades", daily |-> "ciudades"]

\* the step just taken is a component's update that made a request
JustFetched ==
    /\ call.op = "update"
    /\ steps # <<>>
    /\ steps[Len(steps)].step \in DOMAIN StepComponent
    /\ ~steps[Len(steps)].skipped
    /\ steps[Len(steps)].fetch # "none"

\* C28: a component that fetches does so for the entry its resolver holds:
\* after a fetch of the observation the component's station is the station
\* resolver's nearest entry, and after a fetch of the hourly or the daily
\* forecast the component's municipality is the municipality resolver's
\* nearest entry, null included
C28_FetchesForResolvedEntry ==
    JustFetched =>
        sub[StepComponent[steps[Len(steps)].step]].nearest
          = master[StepResolver[steps[Len(steps)].step]].nearest

-----------------------------------------------------------------------------
(* Properties of the normalizers, checked under SpecNormalize *)

ObservationNormalized == call.op = "_clean_currently_data"

GreatestFint(raw) ==
    CHOOSE t \in {raw[i].fint : i \in DOMAIN raw} :
        \A i \in DOMAIN raw : raw[i].fint <= t

\* the normalized structure of one reading
ObservationOf(reading) ==
    [information |-> [weather_station |-> reading.idema],
     data |-> [datetime |-> reading.fint, temperature |-> reading.ta]]

\* C16: the observation normalized from a non-empty list of readings, in any
\* order, is the observation of a reading of the list whose fint is the
\* greatest of the list (of the last such reading, when several share it)
C16_LatestReadingNormalized ==
    (ObservationNormalized /\ call.raw # <<>>) =>
        /\ pc = "done"
        /\ call.val.data.datetime = GreatestFint(call.raw)
        /\ \E i \in DOMAIN call.raw :
              /\ call.raw[i].fint = GreatestFint(call.raw)
              /\ \A j \in DOMAIN call.raw :
                    call.raw[j].fint = GreatestFint(call.raw) => j <= i
              /\ call.val = ObservationOf(call.raw[i])

\* C16 witness: the greatest fint is not at the end of the list, and the
\* observation carries the measurement of that reading, not of the last one
C16_Witness ==
    /\ ObservationNormalized
    /\ pc = "done"
    /\ Len(call.raw) = 2
    /\ call.raw[1].fint > call.raw[2].fint
    /\ call.raw[1].ta # call.raw[2].ta
    /\ call.val = ObservationOf(call.raw[1])

\* C17: normalizing an empty list of readings ends without an exception and
\* gives the null observation
C17_EmptyListGivesNull ==
    (ObservationNormalized /\ call.raw = <<>>) =>
        /\ pc = "done"
        /\ call.val = NULL

ForecastNormalized == call.op = "_refactor_forecast"

\* the full timestamps among the keys of a payload: an entry without periodo
\* or of the whole day is keyed by its date at 00:00:00, an entry of one hour
\* by its date at that hour, and an entry of any other periodo by an interval
FullStamp(entry) ==
    "periodo" \in DOMAIN entry =>
        \/ entry.periodo[1] = entry.periodo[2]
        \/ entry.periodo = <<0, 24>>

\* the entries of the sensors of one day
EntriesOf(day) ==
    UNION { IF "list" \in DOMAIN day[sensor]
            THEN { day[sensor].list[e] : e \in DOMAIN day[sensor].list }
            ELSE { day[sensor] } :
            sensor \in DOMAIN day \ {"fecha"} }

Timestamps(raw) ==
    UNION { { <<raw.dia[d].fecha,
                IF "periodo" \in DOMAIN entry THEN entry.periodo[1] ELSE 0>> :
              entry \in { e \in EntriesOf(raw.dia[d]) : FullStamp(e) } } :
            d \in DOMAIN raw.dia }

\* C19: the records of a normalized forecast are one for each full timestamp
\* among the keys of the payload and none for an interval key, each carries
\* its timestamp as datetime, and they are in ascending order of datetime
C19_RecordsAreSortedTimestamps ==
    (ForecastNormalized /\ pc = "done" /\ call.val # NULL) =>
        LET out == call.val.data
        IN /\ { out[i].datetime : i \in DOMAIN out } = Timestamps(call.raw)
           /\ Len(out) = Cardinality(Timestamps(call.raw))
           /\ \A i \in DOMAIN out : Len(out[i].datetime) = 2
           /\ \A i, j \in DOMAIN out :
                 i < j => EarlierStamp(out[i].datetime, out[j].datetime)

\* C19 witness: a payload that lists the later day first and has an hourly
\* entry and a half-day entry; the three records are in order and the half
\* day is no record of its own
C19_Witness ==
    /\ ForecastNormalized
    /\ pc = "done"
    /\ call.val # NULL
    /\ Len(call.raw.dia) = 2
    /\ call.raw.dia[1].fecha > call.raw.dia[2].fecha
    /\ \E e \in DOMAIN call.raw.dia[2].estadoCielo.list :
          /\ "periodo" \in DOMAIN call.raw.dia[2].estadoCielo.list[e]
          /\ call.raw.dia[2].estadoCielo.list[e].periodo = <<12, 24>>
    /\ Len(call.val.data) = 3
    /\ call.val.data[1].datetime = <<1, 0>>
    /\ call.val.data[1].parts # {}
    /\ call.val.data[3].datetime = <<2, 8>>

CatalogNormalized == call.op = "_clean_master_data"

\* C20: cleaning the result of a cleaning gives that result again, entries
\* and save timestamp, and a catalog that carries a save timestamp is
\* returned as it is
C20_CleaningIdempotent ==
    CatalogNormalized =>
        /\ pc = "done"
        /\ call.twice = call.once
        /\ "saved" \in DOMAIN call.raw => call.once = call.raw

\* C20 witness: a raw catalog with an "id" prefix cleaned at one minute and
\* its result cleaned again at a later one
C20_Witness ==
    /\ CatalogNormalized
    /\ pc = "done"
    /\ "list" \in DOMAIN call.raw
    /\ call.raw.list # <<>>
    /\ call.raw.list[1].id = <<"i", "d", "a">>
    /\ call.again > call.at
    /\ call.once.saved = call.at
    /\ call.once.entries[1].codigo = <<"a">>
    /\ call.twice = call.once

HasIdPrefix(code) == Len(code) >= 2 /\ SubSeq(code, 1, 2) = <<"i", "d">>

\* C21: the cleaned code of a raw code "id" + s is s, and the cleaned code of
\* a raw code that does not start with "id" is the raw code
C21_IdPrefixStripped ==
    (CatalogNormalized /\ "list" \in DOMAIN call.raw) =>
        /\ pc = "done"
        /\ Len(call.once.entries) = Len(call.raw.list)
        /\ \A i \in DOMAIN call.raw.list :
              IF HasIdPrefix(call.raw.list[i].id)
              THEN <<"i", "d">> \o call.once.entries[i].codigo
                      = call.raw.list[i].id
              ELSE call.once.entries[i].codigo = call.raw.list[i].id

\* C21 witness: a code that carries the prefix twice loses it once
C21_Witness ==
    /\ CatalogNormalized
    /\ pc = "done"
    /\ "list" \in DOMAIN call.raw
    /\ Len(call.raw.list) = 1
    /\ call.raw.list[1].id = <<"i", "d", "i", "d", "a">>
    /\ call.once.entries[1].codigo = <<"i", "d", "a">>

\* a daily forecast was normalized: schema version 1.0, every day with some
\* value, every periodo a range of hours of the day, no value an empty list
DailyNormalized ==
    /\ ForecastNormalized
    /\ call.mode = "diaria"
    /\ call.raw.version = "1.0"
    /\ ~EmptyListRead(call.raw.dia, "diaria")
    /\ \A d \in DOMAIN call.raw.dia :
          /\ EntriesOf(call.raw.dia[d]) # {}
          /\ \A e \in EntriesOf(call.raw.dia[d]) :
                "periodo" \in DOMAIN e => e.periodo[1] # e.periodo[2]

\* a value given for a part of the day
SubPeriod(entry) == "periodo" \in DOMAIN entry /\ entry.periodo # <<0, 24>>

\* the entries of one sensor of a day
SensorEntries(day, sensor) ==
    IF sensor \notin DOMAIN day THEN {}
    ELSE IF "list" \in DOMAIN day[sensor]
    THEN { day[sensor].list[e] : e \in DOMAIN day[sensor].list }
    ELSE { day[sensor] }

\* what the entries of a day that are keyed alike (the whole day, or the
\* sub-period horas) give for one line of the schema, the empty string left
\* out, as the record holds it
GivenFor(day, schema, horas) ==
    LET given == { FirstOf(e[schema.field]) :
                     e \in { x \in SensorEntries(day, schema.sensor) :
                               /\ schema.field \in DOMAIN x
                               /\ IF SubPeriod(x) THEN x.periodo = horas
                                  ELSE horas = <<0, 24>> } } \ {""}
    IN { IF FieldName(schema) = "temperature" /\ g \in DOMAIN FloatOf
         THEN FloatOf[g] ELSE g : g \in given }

\* a record (or nested record) holds for every line of the schema a value
\* its entries gave, and nothing where they gave none
HoldsGiven(rec, day, mode, horas) ==
    \A n \in DOMAIN schema_definition(mode) :
       LET schema == schema_definition(mode)[n]
       IN IF GivenFor(day, schema, horas) = {}
          THEN FieldName(schema) \notin DOMAIN rec
          ELSE /\ FieldName(schema) \in DOMAIN rec
               /\ rec[FieldName(schema)] \in GivenFor(day, schema, horas)

\* the records of a daily forecast: one for each day of the payload, at its
\* midnight, holding the values of the whole day directly and those of each
\* sub-period nested under the hours of the sub-period
DailyRecords(raw, out) ==
    /\ Len(out) = Len(raw.dia)
    /\ \A d \in DOMAIN raw.dia :
          \E i \in DOMAIN out :
             /\ out[i].datetime = <<raw.dia[d].fecha, 0>>
             /\ HoldsGiven(out[i], raw.dia[d], "diaria", <<0, 24>>)
             /\ { p.horas : p \in out[i].parts }
                  = { e.periodo : e \in { x \in EntriesOf(raw.dia[d]) :
                                            SubPeriod(x) } }
             /\ \A p \in out[i].parts :
                   HoldsGiven(p.val, raw.dia[d], "diaria", p.horas)

\* C25: in daily mode the normalizer returns exactly one top-level record
\* for each calendar day of the payload, keyed by the midnight of that day;
\* the values of a sub-period are nested in that record under the hours of
\* the sub-period and form no top-level record, and the values without a
\* period or of the period 00-24 are held by the midnight record directly
C25_OneRecordPerDay ==
    (DailyNormalized /\ pc \in {"done", "raised"}) =>
        /\ pc = "done"
        /\ DailyRecords(call.raw, call.val.data)

\* C25, where the normalizer returns and every day of the payload has a
\* value of the whole day: the records are as C25 says
C25_DaysWithWholeDayValue ==
    (/\ DailyNormalized
     /\ pc \in {"done", "raised"}
     /\ \A d \in DOMAIN call.raw.dia :
           \E e \in EntriesOf(call.raw.dia[d]) : ~SubPeriod(e)) =>
        /\ pc = "done"
        /\ DailyRecords(call.raw, call.val.data)

\* the day of a payload that has the date fecha
DayOf(raw, fecha) ==
    raw.dia[CHOOSE d \in DOMAIN raw.dia : raw.dia[d].fecha = fecha]

\* an entry of the payload gives the empty string, as a scalar or first in a
\* list, for a field that the schema of the mode reads
GivesEmpty(day, mode, scalar) ==
    \E n \in DOMAIN schema_definition(mode) :
       \E e \in SensorEntries(day, schema_definition(mode)[n].sensor) :
          /\ schema_definition(mode)[n].field \in DOMAIN e
          /\ e[schema_definition(mode)[n].field]
               \in IF scalar THEN {[scalar |-> ""]}
                   ELSE {[list |-> <<"", "11">>], [list |-> <<"", "20">>]}

\* C26: a sensor value that the payload gives as the empty string, as a
\* scalar or as the first element of a list, is absent from the record of
\* its instant: every record, and every nested record of a sub-period, has
\* for each sensor a value that the entries of its instant gave non-empty
\* (as a number where the sensor is a float sensor), and no entry for a
\* sensor of which they gave nothing but empty strings
C26_EmptyStringIsAbsent ==
    (ForecastNormalized /\ pc = "done" /\ call.val # NULL) =>
        \A i \in DOMAIN call.val.data :
           LET rec == call.val.data[i]
               day == DayOf(call.raw, rec.datetime[1])
           IN /\ HoldsGiven(rec, day, call.mode,
                            IF rec.datetime[2] = 0 THEN <<0, 24>>
                            ELSE <<rec.datetime[2], rec.datetime[2]>>)
              /\ \A p \in rec.parts :
                    HoldsGiven(p.val, day, call.mode, p.horas)

\* C26 witness: the payload gave the temperature of an hour as the empty
\* string, once as a scalar and once first in a list, and the sky of that
\* hour as a value; the record of the hour has the sky and no temperature
C26_Witness ==
    /\ ForecastNormalized
    /\ pc = "done"
    /\ call.mode = "horaria"
    /\ call.val # NULL
    /\ Len(call.raw.dia) = 1
    /\ GivesEmpty(call.raw.dia[1], "horaria", TRUE)
    /\ GivesEmpty(call.raw.dia[1], "horaria", FALSE)
    /\ Len(call.val.data) = 1
    /\ call.val.data[1].datetime = <<1, 8>>
    /\ DOMAIN call.val.data[1] = {"datetime", "parts", "condition"}
    /\ call.val.data[1].condition = "11"

-----------------------------------------------------------------------------
(* Properties of the weather entity, checked under SpecWeather *)

EntityUpdated == call.op = "entity_update" /\ ~call.skipped

FieldRead == call.op = "read" /\ call.name \in FieldAccessors

ForecastRead == call.op = "read" /\ call.name = "forecast"

\* what an accessor shows of a value of its field
Shown(field, value) ==
    IF field = "wind_bearing" THEN WindDirection(value)
    ELSE IF field = "condition" THEN MapCondition(value)
    ELSE value

\* the hourly records the entity holds for the hour of the clock
RecordsOfThisHour ==
    { entity.hourly.list[i] :
        i \in { j \in DOMAIN entity.hourly.list :
                  entity.hourly.list[j].datetime = HourStamp(now) } }

\* C22: once the aggregator has assembled a snapshot, whatever sections of it
\* are null, neither update() nor any accessor of the entity raises; the only
\* exception is one that the aggregator's own update() raised
C22_NullSectionsTolerated ==
    (data # NULL /\ call.op \in {"entity_update", "read"} /\ pc = "raised") =>
        /\ EntityUpdated
        /\ err = "ConnectionError"

\* C23: right after an update() of the entity that returned, an accessor
\* shows the field of the observation when the observation has it, else the
\* field of the hourly record of the current hour, and is absent without an
\* exception when the hourly forecast has no record of the current hour
C23_FallbackToCurrentHour ==
    (FieldRead /\ entity.stamp = now) =>
        /\ pc = "done"
        /\ call.val =
              IF call.name \in DOMAIN entity.currently
              THEN Shown(call.name, DictGet(entity.currently, call.name))
              ELSE IF RecordsOfThisHour # {}
              THEN Shown(call.name,
                         DictGet(CHOOSE r \in RecordsOfThisHour : TRUE,
                                 call.name))
              ELSE NULL

\* the normalized records the forecast of the entity is made from
ForecastRecords ==
    IF entity.mode = "daily" THEN entity.daily.list ELSE entity.hourly.list

\* C30: every entry of the forecast the entity exposes is at or after the
\* start of today (daily mode) or of the current hour (hourly mode), and
\* every field of an entry is the same-named field of the normalized record
\* of its timestamp, the condition being mapped to its name
C30_ForecastFromNow ==
    (ForecastRead /\ pc = "done") =>
        \A i \in DOMAIN call.val :
            /\ ~EarlierStamp(call.val[i].datetime.value,
                             IF entity.mode = "daily" THEN DayStamp(now)
                             ELSE HourStamp(now))
            /\ \E j \in DOMAIN ForecastRecords :
                  /\ ForecastRecords[j].datetime = call.val[i].datetime.value
                  /\ \A f \in DOMAIN call.val[i] :
                        call.val[i][f] =
                            Shown(IF f = "condition" THEN f ELSE "plain",
                                  DictGet(ForecastRecords[j], f))

====
